---- MODULE Spec2Model ----
(***************************************************************************)
(* A model of the chat / streaming orchestration layer of the extension:   *)
(*   - ChatSession (codewhispererChat/clients/chat/v0/chat.ts): the chat   *)
(*     history and fixHistory;                                             *)
(*   - QCliStreamingHandler / QCliStreamingService: one streaming client   *)
(*     multiplexed into UI updates, and cancellation;                      *)
(*   - handleOverwriteConflict and the Messages class (message helpers);   *)
(*   - EditorContentController: viewDiff, viewDiffReadOnly, acceptDiff.    *)
(* Each subsystem has its own variables and its own specification; a       *)
(* specification leaves the other subsystems in their constructed state.   *)
(***************************************************************************)
EXTENDS Integers, Sequences, FiniteSets, TLC

VARIABLES
    \* ---- ChatSession ----
    chatHistory,    \* ChatSession._chatHistory
    nextIn,         \* the nextMessage argument as fixHistory received it
    nextMessage,    \* the same object after fixHistory (it is mutated in place)
    fixOutcome,     \* "none" | "returned" | "threw": how the last fixHistory ended
    historyBefore,  \* the history the last fixHistory call started from
    pushes,         \* number of pushToChatHistory calls made after construction
    \* ---- QCliStreamingService / QCliStreamingHandler ----
    streamingHandler,\* QCliStreamingService.streamingHandler (0: undefined)
    handlersMade,   \* QCliStreamingHandler objects built by initialize(messenger)
    handlerOf,      \* the handler (`this`) each processUserPrompt call runs on
    streamingClient,\* per handler, QCliStreamingHandler.streamingClient (0: undefined)
    clientsMade,    \* clients created by createCodeWhispererChatStreamingClient
    emitters,       \* the clients that have an `on` method (stream.on is defined)
    messageId,      \* per handler, QCliStreamingHandler.messageId (0: '')
    isStreaming,    \* per handler, QCliStreamingHandler.isStreaming
    abortController,\* per handler, QCliStreamingHandler.abortController (0: undefined)
    aborted,        \* the abort controllers whose signal has been triggered
    pc,             \* position of each processUserPrompt call
    tabOf,          \* the tabId argument of each call
    reqClient,      \* the client each call sent its request on (0: none)
    reqSignal,      \* the abort controller whose signal each request was given
    promise,        \* the promise streamResponse returned to each call
    listeners,      \* handler sets registered with stream.on, in order
    fullResponse,   \* the fullResponse local of each streamResponse call
    received,       \* chunk contents the service sent for each request, in order
    chunks,         \* number of chunks the service sent for each request
    ended,          \* the service ended the response stream of each request
    calledBack,     \* the requests whose callback has been called
    sent,           \* the messenger calls made by the operation that ran last
    chatInput,      \* per tab, what the last sendChatInputEnabled set
    lastOp,         \* the operation that ran last
    \* ---- handleOverwriteConflict ----
    fsPaths,        \* the locations that exist in the file system
    owPc,           \* position of the handleOverwriteConflict call
    owLocation,     \* its location argument
    owExisted,      \* what `await fs.exists(location)` gave
    owDialog,       \* the confirmation dialog: none, open, or the user's answer
    owResult,       \* what the call returned or threw
    owDeleteCalled, \* the call has called fs.delete(location)
    \* ---- Messages ----
    messageMap,     \* Messages.messageMap: msgId -> the Timeout of the stored message
    timeoutsMade,   \* number of Timeout objects created by startMessage
    timeoutMsg,     \* the msgId each Timeout was created for
    completed,      \* the Timeouts with completed = true
    progress,       \* per Timeout, its progress notification: pending, shown, noop
    reported,       \* per Timeout, the entries reported on its progress
    putPc,          \* position of each putMessage call
    putMsg,         \* its msgId argument
    putEntry,       \* its progressEntry argument
    putTimeout,     \* the Timeout its startMessage created (0: none)
    putStored,      \* the stored message it found usable (0: none)
    putResult,      \* the Timeout it returned
    \* ---- EditorContentController ----
    files,          \* the file system: path -> content, or Absent
    now,            \* the clock Date.now() reads
    vdPc,           \* position of the call made on the controller
    vdMsg,          \* its message argument
    vdScheme,       \* its scheme argument
    vdModified,     \* modifiedContent: what fs.readFileText gave
    vdTimestamp,    \* timestamp: what Date.now() gave
    vdLog,          \* the API calls the viewDiff call has made, in order
    vdCalls,        \* number of viewDiff calls made
    views,          \* what each setupSaveHandler call registered, with its tab
    openTabs,       \* the diff tabs that are open (numbered like views)
    diffOp,         \* the diff operation that ran last
    vdMethod,       \* the controller method the call is of
    closing,        \* the open tabs tabGroups.close was called for
    copies,         \* per view, the runs of its save listener that have not ended
    deleting,       \* per temp file, the fs.delete calls on it that have not settled
    \* ---- getWorkspaceFoldersByPrefixes ----
    wsFolders,      \* the workspace folders given to the function
    wsResult,       \* what the call gave: not called yet, undefined, a mapping, or a throw
    wsSanitizer,    \* which function sanitizeFilename is during the call
    \* ---- packaging script (package.ts) ----
    pkEnv,          \* what git and ./src/dev/config answer: [git, beta]
    pkFiles,        \* content of package.json, its backup, the webpack config, its backup
    pkPc,           \* position of main()
    pkArgv,         \* process.argv.slice(2) of the run
    pkArgs,         \* what parseArgs returned
    pkRelease,      \* the variable release
    pkJson,         \* the object packageJson
    pkThrew,        \* the step of the try block that threw ("none": none)
    pkBefore,       \* package.json as it was when the run started
    pkRuns,         \* number of runs of the script
    \* ---- executeCommandWithOutputCapture (lsp/client.ts) ----
    capPc,          \* position of the promise executor
    hasShellIntegration, \* the local of that name
    isCompleted,    \* the local of that name
    outputLines,    \* the local of that name
    stdout,         \* the local of that name, as its lines
    receivedFirstChunk,  \* the local of that name
    cmdTimeout,     \* the 60-second timer: none, armed, cleared or fired
    firstChunkTimeout,   \* the 5-second timer: none, armed, cleared or fired
    resolveCalls,   \* the values resolve was called with, in order
    capPromise      \* the returned promise: pending, fulfilled or rejected

chatVars == <<chatHistory, nextIn, nextMessage, fixOutcome, historyBefore, pushes>>

streamVars == <<streamingHandler, handlersMade, handlerOf, streamingClient, clientsMade, emitters, messageId,
                isStreaming, abortController, aborted, pc, tabOf, reqClient, reqSignal,
                promise, listeners, fullResponse, received, chunks, ended, calledBack,
                sent, chatInput, lastOp>>

owVars == <<fsPaths, owPc, owLocation, owExisted, owDialog, owResult, owDeleteCalled>>

msgVars == <<messageMap, timeoutsMade, timeoutMsg, completed, progress, reported, putPc,
             putMsg, putEntry, putTimeout, putStored, putResult>>

diffVars == <<files, now, vdPc, vdMsg, vdScheme, vdModified, vdTimestamp, vdLog, vdCalls,
              views, openTabs, diffOp, vdMethod, closing, copies, deleting>>

wsVars == <<wsFolders, wsResult, wsSanitizer>>

pkVars == <<pkEnv, pkFiles, pkPc, pkArgv, pkArgs, pkRelease, pkJson, pkThrew, pkBefore, pkRuns>>

capVars == <<capPc, hasShellIntegration, isCompleted, outputLines, stdout, receivedFirstChunk,
             cmdTimeout, firstChunkTimeout, resolveCalls, capPromise>>

vars == <<chatVars, streamVars, owVars, msgVars, diffVars, wsVars, pkVars, capVars>>

(***************************************************************************)
(* Bounds of the model.                                                    *)
(***************************************************************************)
\* The conversation before the modelled pushes: this many user/assistant pairs.
MaxBasePairs == 50
\* pushToChatHistory calls explored on top of that conversation.
MaxPush == 3
\* processUserPrompt calls made on the streaming service.
MaxCalls == 2
\* initialize(messenger) calls made on the streaming service.
MaxHandlers == 2
\* Chunks the service sends, over all responses.
MaxChunks == 2
\* putMessage calls made on the Messages class.
MaxPuts == 3
\* viewDiff, viewDiffReadOnly and acceptDiff calls made on the controller.
MaxViewDiffs == 2
\* Values the clock takes.
MaxClock == 2
\* Workspace folders given to getWorkspaceFoldersByPrefixes.
MaxFolders == 3
\* Lines of output after which no further chunk of the stream is read.
MaxOutputLines == 2
\* Runs of one save listener that have not ended.
MaxCopies == 1
\* Command-line arguments given to the packaging script.
MaxArgs == 2
\* Runs of the packaging script.
MaxRuns == 2

(***************************************************************************)
(* ChatSession: messages                                                   *)
(***************************************************************************)
\* const MAX_CONVERSATION_STATE_HISTORY_LEN = 100
MAX_CONVERSATION_STATE_HISTORY_LEN == 100

\* A tool result as fixHistory builds it (toolUseId, content text, status).
ToolResult(id, status, text) == [toolUseId |-> id, status |-> status, text |-> text]

\* { userInputMessage: { content, userInputMessageContext?: { tools?, toolResults? } } }
\* ctx: userInputMessageContext is present; tools: its tools are set;
\* trDefined: its toolResults are not undefined.
UserMessage(content, ctx, tools, trDefined, toolResults) ==
    [role |-> "user", content |-> content, ctx |-> ctx, tools |-> tools,
     trDefined |-> trDefined, toolResults |-> toolResults,
     tuDefined |-> FALSE, toolUses |-> <<>>]

\* { assistantResponseMessage: { content, toolUses? } }
AssistantMessage(tuDefined, toolUses) ==
    [role |-> "assistant", content |-> "answer", ctx |-> FALSE, tools |-> FALSE,
     trDefined |-> FALSE, toolResults |-> <<>>,
     tuDefined |-> tuDefined, toolUses |-> toolUses]

\* The messages the callers of pushToChatHistory hand over.
PushedMessages ==
    { UserMessage("hi", FALSE, FALSE, FALSE, <<>>),
      UserMessage("hi", TRUE, TRUE, FALSE, <<>>),
      UserMessage("", TRUE, TRUE, TRUE, <<ToolResult("t1", "success", "out")>>),
      UserMessage("hi", TRUE, FALSE, TRUE, <<ToolResult("t1", "success", "out")>>),
      UserMessage("", TRUE, FALSE, TRUE, <<>>),
      AssistantMessage(FALSE, <<>>),
      AssistantMessage(TRUE, <<>>),
      AssistantMessage(TRUE, <<"t1", "t2">>) }

\* nextMessage: UserInputMessage | undefined (set = FALSE: undefined).
NextUndefined ==
    [set |-> FALSE, content |-> "", ctx |-> FALSE, trDefined |-> FALSE, toolResults |-> <<>>]

NextMessages ==
    { NextUndefined,
      [set |-> TRUE, content |-> "q", ctx |-> FALSE, trDefined |-> FALSE, toolResults |-> <<>>],
      [set |-> TRUE, content |-> "q", ctx |-> TRUE, trDefined |-> FALSE, toolResults |-> <<>>],
      [set |-> TRUE, content |-> "q", ctx |-> TRUE, trDefined |-> TRUE, toolResults |-> <<>>],
      [set |-> TRUE, content |-> "", ctx |-> TRUE, trDefined |-> TRUE,
       toolResults |-> <<ToolResult("t1", "success", "out")>>] }

\* formatChatHistoryMessage: a user message gets a userInputMessageContext
\* (created when absent) whose tools are undefined; other messages are kept.
formatChatHistoryMessage(message) ==
    IF message.role = "user"
    THEN [message EXCEPT !.ctx = TRUE, !.tools = FALSE]
    ELSE message

\* A conversation of n user/assistant pairs, as the chat controller pushes them.
RECURSIVE BaseConversation(_)
BaseConversation(n) ==
    IF n = 0 THEN <<>>
    ELSE BaseConversation(n - 1)
         \o << formatChatHistoryMessage(UserMessage("hi", TRUE, TRUE, FALSE, <<>>)),
               AssistantMessage(FALSE, <<>>) >>

(***************************************************************************)
(* ChatSession.fixHistory                                                  *)
(***************************************************************************)
\* The findIndex predicate: a user message without tool results and with
\* non-empty content.
IsValidStart(message) ==
    /\ message.role = "user"
    /\ (~message.trDefined \/ Len(message.toolResults) = 0)
    /\ message.content # ""

\* this.chatHistory.slice(1).findIndex(...): 0-based index in the slice, or -1.
IndexToKeep(history) ==
    LET hits == { i \in 2..Len(history) : IsValidStart(history[i]) }
    IN IF hits = {} THEN -1
       ELSE (CHOOSE i \in hits : \A j \in hits : i <= j) - 2

\* `private set chatHistory(chatHistory) { this.chatHistory = chatHistory }`:
\* the assignment inside the accessor invokes the accessor again, so the call
\* never writes _chatHistory and ends in a RangeError (stack exhausted).
chatHistorySetter(stored, value) ==
    [threw |-> TRUE, history |-> stored]

\* nextMessage.userInputMessageContext.toolResults.length > 0
HasToolResults(next) ==
    next.set /\ next.ctx /\ next.trDefined /\ Len(next.toolResults) > 0

\* The trimming block of fixHistory (history longer than the maximum).
TrimHistory(history, next) ==
    IF Len(history) > MAX_CONVERSATION_STATE_HISTORY_LEN
    THEN LET indexToKeep == IndexToKeep(history)
             assigned == IF indexToKeep # -1
                         THEN chatHistorySetter(history,
                                  SubSeq(history, indexToKeep + 2, Len(history)))
                         ELSE chatHistorySetter(history, <<>>)
         IN [threw |-> assigned.threw,
             history |-> assigned.history,
             next |-> IF ~assigned.threw /\ indexToKeep = -1 /\ HasToolResults(next)
                      THEN [next EXCEPT !.content = "overflowed",
                                        !.trDefined = FALSE, !.toolResults = <<>>]
                      ELSE next]
    ELSE [threw |-> FALSE, history |-> history, next |-> next]

\* "If the last message is from the user, drop it": one pop().
DropLastUser(history) ==
    IF Len(history) > 0 /\ history[Len(history)].role = "user"
    THEN SubSeq(history, 1, Len(history) - 1)
    ELSE history

\* toolUses.map(toolUse => ({ toolUseId, content: [...cancelled...], status: 'error' }))
CancelledToolResults(toolUses) ==
    [i \in 1..Len(toolUses) |->
        ToolResult(toolUses[i], "error", "Tool use was cancelled by the user")]

\* The last block of fixHistory: cancelled tool results for the next message.
AddCancelledToolResults(history, next) ==
    IF /\ Len(history) > 0
       /\ history[Len(history)].role = "assistant"
       /\ history[Len(history)].tuDefined
       /\ Len(history[Len(history)].toolUses) > 0
       /\ next.set
       /\ next.ctx
       /\ (~next.trDefined \/ Len(next.toolResults) = 0)
    THEN [next EXCEPT !.trDefined = TRUE,
                      !.toolResults = CancelledToolResults(history[Len(history)].toolUses)]
    ELSE next

\* fixHistory(nextMessage): the history and the next message it leaves behind.
fixHistory(history, next) ==
    LET trimmed == TrimHistory(history, next)
    IN IF trimmed.threw
       THEN [threw |-> TRUE, history |-> trimmed.history, next |-> trimmed.next]
       ELSE LET dropped == DropLastUser(trimmed.history)
            IN [threw |-> FALSE,
                history |-> dropped,
                next |-> AddCancelledToolResults(dropped, trimmed.next)]

(***************************************************************************)
(* ChatSession: state machine                                              *)
(***************************************************************************)
\* new ChatSession(), then the conversation so far.
ChatInit ==
    /\ \E n \in {0, MaxBasePairs - 1, MaxBasePairs} : chatHistory = BaseConversation(n)
    /\ nextIn = NextUndefined
    /\ nextMessage = NextUndefined
    /\ fixOutcome = "none"
    /\ historyBefore = <<>>
    /\ pushes = 0

\* new ChatSession() with nothing pushed.
ChatIdle ==
    /\ chatHistory = <<>>
    /\ nextIn = NextUndefined
    /\ nextMessage = NextUndefined
    /\ fixOutcome = "none"
    /\ historyBefore = <<>>
    /\ pushes = 0

\* The other subsystems do not move.
ChatFrame == UNCHANGED <<streamVars, owVars, msgVars, diffVars, wsVars, pkVars, capVars>>

\* pushToChatHistory(message), message defined.
PushToChatHistory ==
    /\ ChatFrame
    /\ pushes < MaxPush
    /\ \E message \in PushedMessages :
          chatHistory' = Append(chatHistory, formatChatHistoryMessage(message))
    /\ pushes' = pushes + 1
    /\ fixOutcome' = "none"
    /\ UNCHANGED <<nextIn, nextMessage, historyBefore>>

\* pushToChatHistory(undefined): returns at once.
PushUndefined ==
    /\ ChatFrame
    /\ pushes < MaxPush
    /\ pushes' = pushes + 1
    /\ fixOutcome' = "none"
    /\ UNCHANGED <<chatHistory, nextIn, nextMessage, historyBefore>>

\* chatSso: this.fixHistory(chatRequest.conversationState?.currentMessage?.userInputMessage)
FixHistory ==
    /\ ChatFrame
    /\ fixOutcome = "none"
    /\ \E next \in NextMessages :
          LET r == fixHistory(chatHistory, next)
          IN /\ chatHistory' = r.history
             /\ nextIn' = next
             /\ historyBefore' = chatHistory
             /\ nextMessage' = r.next
             /\ fixOutcome' = IF r.threw THEN "threw" ELSE "returned"
    /\ UNCHANGED pushes

ChatNext == PushToChatHistory \/ PushUndefined \/ FixHistory

(***************************************************************************)
(* QCliStreamingService / QCliStreamingHandler                             *)
(***************************************************************************)
Calls == 1..MaxCalls
Handlers == 1..MaxHandlers
Tabs == {"tab-1", "tab-2"}
\* chunk.assistantResponseEvent?.content of the n-th chunk of a response: a
\* string as its sequence of characters; the empty one stands for a chunk
\* without content.
ChunkContents(n) == { <<>>, IF n = 1 THEN <<"a">> ELSE <<"b">> }
\* The userPrompt argument.
UserPrompt == <<"p">>

\* messenger.sendChatInputEnabled(tabId, enabled)
ChatInputEnabled(tab, enabled) ==
    [fn |-> "sendChatInputEnabled", tab |-> tab, type |-> "", text |-> <<>>,
     id |-> 0, enabled |-> enabled]
\* messenger.sendMessage(message, tabId, type, messageId?)
Message(text, tab, type, id) ==
    [fn |-> "sendMessage", tab |-> tab, type |-> type, text |-> text,
     id |-> id, enabled |-> FALSE]
\* messenger.sendShortSummary({ message, type, tabID, messageID })
ShortSummary(text, type, tab, id) ==
    [fn |-> "sendShortSummary", tab |-> tab, type |-> type, text |-> text,
     id |-> id, enabled |-> FALSE]
\* messenger.sendErrorMessage('Failed to process your request. Please try again.', tabId)
ErrorMessage(tab) ==
    [fn |-> "sendErrorMessage", tab |-> tab, type |-> "error", text |-> <<>>,
     id |-> 0, enabled |-> FALSE]

\* Promise settlement: only a pending promise changes state.
Settle(state, outcome) == IF state = "pending" THEN outcome ELSE state

\* The handler sets registered on one client, in registration order.
ListenersOn(client) == SelectSeq(listeners, LAMBDA l : l.client = client)

\* handleChunk of one streamResponse call: with content, it appends to its
\* fullResponse and sends an 'answer-stream' update under this.messageId.
handleChunk(st, call, content) ==
    IF content # <<>>
    THEN [st EXCEPT !.full[call] = st.full[call] \o content,
                    !.log = Append(st.log,
                                ShortSummary(st.full[call] \o content, "answer-stream",
                                             tabOf[call], messageId[handlerOf[call]]))]
    ELSE st

\* handleComplete of one streamResponse call: the final 'answer' update,
\* chat input re-enabled, the promise resolved.
handleComplete(st, call) ==
    [st EXCEPT !.log = st.log \o << ShortSummary(st.full[call], "answer", tabOf[call],
                                                 messageId[handlerOf[call]]),
                                    ChatInputEnabled(tabOf[call], TRUE) >>,
               !.promise[call] = Settle(st.promise[call], "resolved")]

\* stream.on('error', reject) of one streamResponse call.
handleError(st, call) ==
    [st EXCEPT !.promise[call] = Settle(st.promise[call], "rejected")]

\* emit(event): every handler registered for the event runs, in order.
RECURSIVE Emit(_, _, _, _)
Emit(ls, event, content, st) ==
    IF ls = <<>> THEN st
    ELSE Emit(Tail(ls), event, content,
              CASE event = "data" -> handleChunk(st, Head(ls).call, content)
                [] event = "end" -> handleComplete(st, Head(ls).call)
                [] OTHER -> handleError(st, Head(ls).call))

EmitState == [full |-> fullResponse, log |-> <<>>, promise |-> promise]

\* The chat input of each tab after the given messenger calls.
RECURSIVE ApplyChatInput(_, _)
ApplyChatInput(input, calls) ==
    IF calls = <<>> THEN input
    ELSE ApplyChatInput(
             IF Head(calls).fn = "sendChatInputEnabled"
             THEN [input EXCEPT ![Head(calls).tab] =
                      IF Head(calls).enabled THEN "enabled" ELSE "disabled"]
             ELSE input,
             Tail(calls))

\* The messenger calls an operation makes, and the chat input they leave.
Send(calls) ==
    /\ sent' = calls
    /\ chatInput' = ApplyChatInput(chatInput, calls)

\* The other subsystems do not move.
StreamFrame == UNCHANGED <<chatVars, owVars, msgVars, diffVars, wsVars, pkVars, capVars>>

\* The tabId of a new call: a tab some call already uses, or the first unused
\* one (tab ids are opaque, so this loses no behaviour).
TabChoices ==
    LET used == { tabOf[c] : c \in Calls } \ {"none"}
    IN IF used = {} THEN {"tab-1"} ELSE Tabs

\* new QCliStreamingService(): no handler yet, no call made.
StreamIdle ==
    /\ streamingHandler = 0
    /\ handlersMade = 0
    /\ handlerOf = [c \in Calls |-> 0]
    /\ streamingClient = [h \in Handlers |-> 0]
    /\ clientsMade = 0
    /\ emitters = {}
    /\ messageId = [h \in Handlers |-> 0]
    /\ isStreaming = [h \in Handlers |-> FALSE]
    /\ abortController = [h \in Handlers |-> 0]
    /\ aborted = {}
    /\ pc = [c \in Calls |-> "idle"]
    /\ tabOf = [c \in Calls |-> "none"]
    /\ reqClient = [c \in Calls |-> 0]
    /\ reqSignal = [c \in Calls |-> 0]
    /\ promise = [c \in Calls |-> "none"]
    /\ listeners = <<>>
    /\ fullResponse = [c \in Calls |-> <<>>]
    /\ received = [c \in Calls |-> <<>>]
    /\ chunks = [c \in Calls |-> 0]
    /\ ended = [c \in Calls |-> FALSE]
    /\ calledBack = {}
    /\ sent = <<>>
    /\ chatInput = [t \in Tabs |-> "unset"]
    /\ lastOp = [op |-> "new", call |-> 0]

\* QCliStreamingService.initialize(messenger): this.streamingHandler = new
\* QCliStreamingHandler(messenger), whatever handler there was; the calls
\* running on an earlier handler go on with it.
ServiceInitialize ==
    /\ StreamFrame
    /\ handlersMade < MaxHandlers
    /\ handlersMade' = handlersMade + 1
    /\ streamingHandler' = handlersMade + 1
    /\ lastOp' = [op |-> "initialize", call |-> 0]
    /\ UNCHANGED <<streamingClient, clientsMade, emitters, messageId, isStreaming,
                   abortController, aborted, pc, tabOf, handlerOf, reqClient, reqSignal,
                   promise, listeners, fullResponse, received, chunks, ended, chatInput,
                   calledBack>>
    /\ sent' = <<>>

\* The try block of processUserPrompt up to `await this.streamResponse(...)`,
\* on the handler of the call and the client `client`: the flags, a fresh messageId and AbortController,
\* three messenger calls, the request with the controller's signal, and the
\* stream handlers (not registered when the request throws at once, nor when
\* the client has no `on` method).
StartStreaming(call, tab, client, hasOn, requestThrows) ==
    /\ isStreaming' = [isStreaming EXCEPT ![handlerOf'[call]] = TRUE]
    /\ messageId' = [messageId EXCEPT ![handlerOf'[call]] = call]
    /\ abortController' = [abortController EXCEPT ![handlerOf'[call]] = call]
    /\ tabOf' = [tabOf EXCEPT ![call] = tab]
    /\ Send(<< ChatInputEnabled(tab, FALSE),
                Message(UserPrompt, tab, "prompt", 0),
                Message(<<>>, tab, "answer-stream", call) >>)
    /\ reqClient' = [reqClient EXCEPT ![call] = IF requestThrows THEN 0 ELSE client]
    /\ reqSignal' = [reqSignal EXCEPT ![call] = call]
    /\ promise' = [promise EXCEPT ![call] = IF requestThrows THEN "rejected" ELSE "pending"]
    /\ listeners' = IF requestThrows \/ ~hasOn THEN listeners
                    ELSE Append(listeners, [client |-> client, call |-> call])
    /\ pc' = [pc EXCEPT ![call] = "streaming"]
    /\ lastOp' = [op |-> "processUserPrompt", call |-> call]

\* QCliStreamingService.processUserPrompt before initialize(): throws.
ProcessUserPromptNoHandler(call) ==
    /\ StreamFrame
    /\ pc[call] = "idle"
    /\ \A d \in Calls : d < call => pc[d] # "idle"
    /\ streamingHandler = 0
    /\ pc' = [pc EXCEPT ![call] = "rejected"]
    /\ lastOp' = [op |-> "notInitialized", call |-> call]
    /\ UNCHANGED <<streamingHandler, handlersMade, streamingClient, clientsMade, emitters, messageId,
                   isStreaming, abortController, aborted, tabOf, handlerOf, reqClient, reqSignal,
                   promise, listeners, fullResponse, received, chunks, ended, chatInput,
                   calledBack>>
    /\ sent' = <<>>

\* processUserPrompt(userPrompt, tabId, session) without a streaming client:
\* the call waits in `await this.initialize()`.
ProcessUserPromptInitialize(call) ==
    /\ StreamFrame
    /\ pc[call] = "idle"
    /\ \A d \in Calls : d < call => pc[d] # "idle"
    /\ streamingHandler # 0
    /\ streamingClient[streamingHandler] = 0
    /\ handlerOf' = [handlerOf EXCEPT ![call] = streamingHandler]
    /\ \E tab \in TabChoices : tabOf' = [tabOf EXCEPT ![call] = tab]
    /\ pc' = [pc EXCEPT ![call] = "initializing"]
    /\ lastOp' = [op |-> "awaitInitialize", call |-> call]
    /\ UNCHANGED <<streamingHandler, handlersMade, streamingClient, clientsMade, emitters,
                   messageId, isStreaming, abortController, aborted, reqClient, reqSignal,
                   promise, listeners, fullResponse, received, chunks, ended, chatInput,
                   calledBack>>
    /\ sent' = <<>>

\* processUserPrompt(userPrompt, tabId, session) with a streaming client.
ProcessUserPrompt(call) ==
    /\ StreamFrame
    /\ pc[call] = "idle"
    /\ \A d \in Calls : d < call => pc[d] # "idle"
    /\ streamingHandler # 0
    /\ streamingClient[streamingHandler] # 0
    /\ handlerOf' = [handlerOf EXCEPT ![call] = streamingHandler]
    /\ \E tab \in TabChoices, requestThrows \in BOOLEAN :
          StartStreaming(call, tab, streamingClient[streamingHandler],
                         streamingClient[streamingHandler] \in emitters, requestThrows)
    /\ UNCHANGED <<streamingHandler, handlersMade, streamingClient, clientsMade, emitters,
                   aborted, fullResponse, received, chunks, ended, calledBack>>

\* Whether a new client has an `on` method: the clients are objects of one
\* class, so the first one decides for all.
HasOnChoices == IF clientsMade = 0 THEN BOOLEAN ELSE { 1 \in emitters }

\* QCliStreamingHandler.initialize() after `await
\* createCodeWhispererChatStreamingClient()`: the new client is stored in
\* this.streamingClient, over the one another call may have stored; the
\* continuation of `await this.initialize()` is queued.
ClientCreated(call) ==
    /\ StreamFrame
    /\ pc[call] = "initializing"
    /\ clientsMade' = clientsMade + 1
    /\ streamingClient' = [streamingClient EXCEPT ![handlerOf[call]] = clientsMade + 1]
    /\ \E hasOn \in HasOnChoices :
          emitters' = IF hasOn THEN emitters \cup {clientsMade + 1} ELSE emitters
    /\ pc' = [pc EXCEPT ![call] = "initialized"]
    /\ lastOp' = [op |-> "clientCreated", call |-> call]
    /\ UNCHANGED <<streamingHandler, handlersMade, messageId, isStreaming, abortController,
                   aborted, tabOf, handlerOf, reqClient, reqSignal, promise, listeners,
                   fullResponse, received, chunks, ended, chatInput, calledBack>>
    /\ sent' = <<>>

\* processUserPrompt after `await this.initialize()`: the try block, on the
\* client this.streamingClient holds by now.
InitializeDone(call) ==
    /\ StreamFrame
    /\ pc[call] = "initialized"
    /\ UNCHANGED handlerOf
    /\ \E requestThrows \in BOOLEAN :
          StartStreaming(call, tabOf[call], streamingClient[handlerOf[call]],
                         streamingClient[handlerOf[call]] \in emitters, requestThrows)
    /\ UNCHANGED <<streamingHandler, handlersMade, streamingClient, clientsMade, emitters,
                   aborted, fullResponse, received, chunks, ended, calledBack>>

\* initialize() throws: processUserPrompt rejects before its try block.
InitializeFails(call) ==
    /\ StreamFrame
    /\ pc[call] = "initializing"
    /\ pc' = [pc EXCEPT ![call] = "rejected"]
    /\ lastOp' = [op |-> "initializeFailed", call |-> call]
    /\ UNCHANGED <<streamingHandler, handlersMade, streamingClient, clientsMade, emitters, messageId,
                   isStreaming, abortController, aborted, tabOf, handlerOf, reqClient, reqSignal,
                   promise, listeners, fullResponse, received, chunks, ended, chatInput,
                   calledBack>>
    /\ sent' = <<>>

\* The request of `call` is open: sent on a client that emits events, not
\* failed, not ended, not aborted.
RequestOpen(call) ==
    /\ pc[call] = "streaming"
    /\ reqClient[call] \in emitters
    /\ ~ended[call]
    /\ reqSignal[call] \notin aborted

\* The chunks the service has sent for the requests of the calls 1..n.
RECURSIVE ChunksSent(_)
ChunksSent(n) == IF n = 0 THEN 0 ELSE chunks[n] + ChunksSent(n - 1)

\* The service sends a chunk of the response to `call`: 'data' on its client.
StreamData(call) ==
    /\ StreamFrame
    /\ RequestOpen(call)
    /\ ChunksSent(MaxCalls) < MaxChunks
    /\ \E content \in ChunkContents(chunks[call] + 1) :
          LET st == Emit(ListenersOn(reqClient[call]), "data", content, EmitState)
          IN /\ fullResponse' = st.full
             /\ Send(st.log)
             /\ received' = [received EXCEPT ![call] = received[call] \o content]
             /\ lastOp' = [op |-> IF content = <<>> THEN "emptyChunk" ELSE "chunk",
                           call |-> call]
    /\ chunks' = [chunks EXCEPT ![call] = chunks[call] + 1]
    /\ UNCHANGED <<streamingHandler, handlersMade, streamingClient, clientsMade, emitters, messageId,
                   isStreaming, abortController, aborted, pc, tabOf, handlerOf, reqClient, reqSignal,
                   promise, listeners, ended, calledBack>>

\* The response to `call` ends: 'end' on its client.
StreamEnd(call) ==
    /\ StreamFrame
    /\ RequestOpen(call)
    /\ LET st == Emit(ListenersOn(reqClient[call]), "end", <<>>, EmitState)
       IN /\ Send(st.log)
          /\ promise' = st.promise
    /\ ended' = [ended EXCEPT ![call] = TRUE]
    /\ lastOp' = [op |-> "end", call |-> call]
    /\ UNCHANGED <<streamingHandler, handlersMade, streamingClient, clientsMade, emitters, messageId,
                   isStreaming, abortController, aborted, pc, tabOf, handlerOf, reqClient, reqSignal,
                   listeners, fullResponse, received, chunks, calledBack>>

\* The stream of `call` fails: 'error' on its client.
StreamError(call) ==
    /\ StreamFrame
    /\ pc[call] = "streaming"
    /\ reqClient[call] \in emitters
    /\ ~ended[call]
    /\ LET st == Emit(ListenersOn(reqClient[call]), "error", <<>>, EmitState)
       IN promise' = st.promise
    /\ ended' = [ended EXCEPT ![call] = TRUE]
    /\ lastOp' = [op |-> "error", call |-> call]
    /\ UNCHANGED <<streamingHandler, handlersMade, streamingClient, clientsMade, emitters, messageId,
                   isStreaming, abortController, aborted, pc, tabOf, handlerOf, reqClient, reqSignal,
                   listeners, fullResponse, received, chunks, chatInput, calledBack>>
    /\ sent' = <<>>

\* callback(err, data) of the request of `call`, called once: an error
\* rejects the promise, a result is only logged. (A callback after the
\* promise has settled changes nothing and is left out.)
Callback(call) ==
    /\ StreamFrame
    /\ pc[call] = "streaming"
    /\ reqClient[call] # 0
    /\ promise[call] = "pending"
    /\ call \notin calledBack
    /\ calledBack' = calledBack \cup {call}
    /\ Send(<<>>)
    /\ \E err \in BOOLEAN :
          /\ (reqSignal[call] \in aborted => err)
          /\ promise' = [promise EXCEPT ![call] =
                            IF err THEN Settle(promise[call], "rejected") ELSE promise[call]]
          /\ lastOp' = [op |-> IF err THEN "callbackError" ELSE "callback",
                        call |-> call]
    /\ UNCHANGED <<streamingHandler, handlersMade, streamingClient, clientsMade, emitters, messageId,
                   isStreaming, abortController, aborted, pc, tabOf, handlerOf, reqClient, reqSignal,
                   listeners, fullResponse, received, chunks, ended>>

\* processUserPrompt after `await this.streamResponse(...)`: chat input is
\* re-enabled (after an error message when the promise rejected), then the
\* finally block clears isStreaming and abortController.
FinishPrompt(call) ==
    /\ StreamFrame
    /\ pc[call] = "streaming"
    /\ promise[call] \in {"resolved", "rejected"}
    /\ Send(IF promise[call] = "resolved"
            THEN << ChatInputEnabled(tabOf[call], TRUE) >>
            ELSE << ErrorMessage(tabOf[call]), ChatInputEnabled(tabOf[call], TRUE) >>)
    /\ isStreaming' = [isStreaming EXCEPT ![handlerOf[call]] = FALSE]
    /\ abortController' = [abortController EXCEPT ![handlerOf[call]] = 0]
    /\ pc' = [pc EXCEPT ![call] = "done"]
    /\ lastOp' = [op |-> "finish", call |-> call]
    /\ UNCHANGED <<streamingHandler, handlersMade, streamingClient, clientsMade, emitters, messageId,
                   aborted, tabOf, handlerOf, reqClient, reqSignal, promise, listeners, fullResponse,
                   received, chunks, ended, calledBack>>

\* QCliStreamingService.cancelStreaming -> QCliStreamingHandler.cancelStreaming
CancelStreaming ==
    /\ StreamFrame
    /\ aborted' = IF /\ streamingHandler # 0
                     /\ isStreaming[streamingHandler]
                     /\ abortController[streamingHandler] # 0
                  THEN aborted \cup {abortController[streamingHandler]}
                  ELSE aborted
    /\ lastOp' = [op |-> "cancelStreaming", call |-> 0]
    /\ UNCHANGED <<streamingHandler, handlersMade, streamingClient, clientsMade, emitters, messageId,
                   isStreaming, abortController, pc, tabOf, handlerOf, reqClient, reqSignal, promise,
                   listeners, fullResponse, received, chunks, ended, chatInput, calledBack>>
    /\ sent' = <<>>

StreamNext ==
    \/ ServiceInitialize
    \/ CancelStreaming
    \/ \E call \in Calls :
          \/ ProcessUserPromptNoHandler(call)
          \/ ProcessUserPromptInitialize(call)
          \/ ProcessUserPrompt(call)
          \/ ClientCreated(call)
          \/ InitializeDone(call)
          \/ InitializeFails(call)
          \/ StreamData(call)
          \/ StreamEnd(call)
          \/ StreamError(call)
          \/ Callback(call)
          \/ FinishPrompt(call)

(***************************************************************************)
(* handleOverwriteConflict / showConfirmationMessage                       *)
(***************************************************************************)
\* The locations (vscode.Uri) the function is called with.
Locations == {"/out/a", "/out/b", "/out/c"}

\* The other subsystems do not move.
OwFrame == UNCHANGED <<chatVars, streamVars, msgVars, diffVars, wsVars, pkVars, capVars>>

\* Some locations exist, no call has been made.
OwInit ==
    /\ fsPaths \in SUBSET Locations
    /\ owPc = "idle"
    /\ owLocation = "none"
    /\ owExisted = FALSE
    /\ owDialog = "none"
    /\ owResult = "none"
    /\ owDeleteCalled = FALSE

\* Nothing exists, no call has been made.
OwIdle ==
    /\ fsPaths = {}
    /\ owPc = "idle"
    /\ owLocation = "none"
    /\ owExisted = FALSE
    /\ owDialog = "none"
    /\ owResult = "none"
    /\ owDeleteCalled = FALSE

\* handleOverwriteConflict(location): up to `await fs.exists(location)`.
HandleOverwriteConflict(location) ==
    /\ OwFrame
    /\ owPc \in {"idle", "returned", "threw"}
    /\ owDialog # "open"
    /\ owPc' = "exists"
    /\ owLocation' = location
    /\ owExisted' = FALSE
    /\ owDialog' = "none"
    /\ owResult' = "none"
    /\ owDeleteCalled' = FALSE
    /\ UNCHANGED fsPaths

\* `choice = showConfirmationMessage(...)` is the promise itself (it is not
\* awaited), and a promise is truthy whatever the user answers.
ChoiceIsTruthy(answer) == TRUE

\* fs.exists resolves. Not found: return true. Found: the confirmation dialog
\* opens, `if (!choice)` is tested on the pending promise, and fs.delete is
\* called when the test lets the function go on.
ExistsResolved ==
    /\ OwFrame
    /\ owPc = "exists"
    /\ owExisted' = (owLocation \in fsPaths)
    /\ IF owLocation \notin fsPaths
       THEN /\ owPc' = "returned"
            /\ owResult' = "true"
            /\ UNCHANGED <<owDialog, owDeleteCalled>>
       ELSE /\ owDialog' = "open"
            /\ IF ChoiceIsTruthy("pending")
               THEN /\ owPc' = "deleting"
                    /\ owDeleteCalled' = TRUE
                    /\ owResult' = "none"
               ELSE /\ owPc' = "threw"
                    /\ owDeleteCalled' = FALSE
                    /\ owResult' = "ToolkitError: Folder already exists"
    /\ UNCHANGED <<fsPaths, owLocation>>

\* fs.delete(location, { recursive, force }) resolves: return true.
DeleteResolved ==
    /\ OwFrame
    /\ owPc = "deleting"
    /\ fsPaths' = fsPaths \ {owLocation}
    /\ owPc' = "returned"
    /\ owResult' = "true"
    /\ UNCHANGED <<owLocation, owExisted, owDialog, owDeleteCalled>>

\* fs.delete rejects: ToolkitError.chain(error, 'Failed to delete existing folder').
DeleteRejected ==
    /\ OwFrame
    /\ owPc = "deleting"
    /\ owPc' = "threw"
    /\ owResult' = "ToolkitError: Failed to delete existing folder"
    /\ UNCHANGED <<fsPaths, owLocation, owExisted, owDialog, owDeleteCalled>>

\* The user answers the modal warning of showConfirmationMessage: the confirm
\* item, the cancel item, or closing it (selection undefined).
UserAnswers ==
    /\ OwFrame
    /\ owDialog = "open"
    /\ \E answer \in {"confirmed", "declined", "dismissed"} : owDialog' = answer
    /\ UNCHANGED <<fsPaths, owPc, owLocation, owExisted, owResult, owDeleteCalled>>

\* Between calls, something creates a location.
LocationCreated ==
    /\ OwFrame
    /\ owPc \in {"idle", "returned", "threw"}
    /\ \E location \in Locations \ fsPaths : fsPaths' = fsPaths \cup {location}
    /\ UNCHANGED <<owPc, owLocation, owExisted, owDialog, owResult, owDeleteCalled>>

OwNext ==
    \/ \E location \in Locations : HandleOverwriteConflict(location)
    \/ ExistsResolved
    \/ DeleteResolved
    \/ DeleteRejected
    \/ UserAnswers
    \/ LocationCreated

(***************************************************************************)
(* Messages (putMessage / startMessage) and showProgressWithTimeout        *)
(***************************************************************************)
PutCalls == 1..MaxPuts
MsgIds == {"msg-1", "msg-2"}
\* Timeout objects are numbered in creation order; 0 stands for none.
TimeoutIds == 1..MaxPuts
\* The progressEntry argument ("none": undefined).
ProgressEntries == {"none", "step"}

\* The other subsystems do not move.
MsgFrame == UNCHANGED <<chatVars, streamVars, owVars, diffVars, wsVars, pkVars, capVars>>

\* Messages.messageMap = {}, no Timeout created, no call made.
MsgIdle ==
    /\ messageMap = [m \in MsgIds |-> 0]
    /\ timeoutsMade = 0
    /\ timeoutMsg = [t \in TimeoutIds |-> "none"]
    /\ completed = {}
    /\ progress = [t \in TimeoutIds |-> "none"]
    /\ reported = [t \in TimeoutIds |-> <<>>]
    /\ putPc = [c \in PutCalls |-> "idle"]
    /\ putMsg = [c \in PutCalls |-> "none"]
    /\ putEntry = [c \in PutCalls |-> "none"]
    /\ putTimeout = [c \in PutCalls |-> 0]
    /\ putStored = [c \in PutCalls |-> 0]
    /\ putResult = [c \in PutCalls |-> 0]

\* The message putMessage works with after its two first statements: the
\* stored one, unless none is stored or its timeout is completed (0).
StoredMessage(msgId) ==
    IF messageMap[msgId] # 0 /\ messageMap[msgId] \notin completed
    THEN messageMap[msgId]
    ELSE 0

\* message.progress.report(progressEntry), when an entry was given. The no-op
\* progress of a message that completed before it was shown drops the entry.
Report(reports, timeout, shown, entry) ==
    IF entry # "none" /\ shown = "shown"
    THEN [reports EXCEPT ![timeout] = Append(reports[timeout], entry)]
    ELSE reports

\* putMessage(msgId, messageText, progressEntry) with a stored, uncompleted
\* message: report on it and return its timeout.
PutMessageUpdate(call) ==
    /\ MsgFrame
    /\ putPc[call] = "idle"
    /\ \A d \in PutCalls : d < call => putPc[d] # "idle"
    /\ \E msgId \in MsgIds, entry \in ProgressEntries :
          /\ StoredMessage(msgId) # 0
          /\ putMsg' = [putMsg EXCEPT ![call] = msgId]
          /\ putEntry' = [putEntry EXCEPT ![call] = entry]
          /\ putStored' = [putStored EXCEPT ![call] = StoredMessage(msgId)]
          /\ reported' = Report(reported, StoredMessage(msgId),
                                progress[StoredMessage(msgId)], entry)
          /\ putResult' = [putResult EXCEPT ![call] = StoredMessage(msgId)]
    /\ putPc' = [putPc EXCEPT ![call] = "returned"]
    /\ UNCHANGED <<messageMap, timeoutsMade, timeoutMsg, completed, progress, putTimeout>>

\* putMessage without a usable stored message: startMessage creates a Timeout
\* and waits for showMessageWithCancel (its setTimeout has not fired yet).
PutMessageStart(call) ==
    /\ MsgFrame
    /\ putPc[call] = "idle"
    /\ \A d \in PutCalls : d < call => putPc[d] # "idle"
    /\ \E msgId \in MsgIds, entry \in ProgressEntries :
          /\ StoredMessage(msgId) = 0
          /\ putMsg' = [putMsg EXCEPT ![call] = msgId]
          /\ putEntry' = [putEntry EXCEPT ![call] = entry]
          /\ timeoutMsg' = [timeoutMsg EXCEPT ![timeoutsMade + 1] = msgId]
    /\ timeoutsMade' = timeoutsMade + 1
    /\ putTimeout' = [putTimeout EXCEPT ![call] = timeoutsMade + 1]
    /\ progress' = [progress EXCEPT ![timeoutsMade + 1] = "pending"]
    /\ putPc' = [putPc EXCEPT ![call] = "starting"]
    /\ UNCHANGED <<messageMap, completed, reported, putStored, putResult>>

\* The setTimeout callback of showProgressWithTimeout runs: with the timeout
\* completed it resolves the progress promise with a no-op progress; else it
\* calls vscode.window.withProgress, which calls its task (that resolves the
\* promise with the shown progress) in the same turn or in a later one.
TimerCallback(call, deferred) ==
    /\ MsgFrame
    /\ putPc[call] = "starting"
    /\ LET timeout == putTimeout[call]
       IN IF timeout \in completed
          THEN /\ progress' = [progress EXCEPT ![timeout] = "noop"]
               /\ putPc' = [putPc EXCEPT ![call] = "resolved"]
          ELSE IF deferred
          THEN /\ progress' = [progress EXCEPT ![timeout] = "showing"]
               /\ putPc' = [putPc EXCEPT ![call] = "showing"]
          ELSE /\ progress' = [progress EXCEPT ![timeout] = "shown"]
               /\ putPc' = [putPc EXCEPT ![call] = "resolved"]
    /\ UNCHANGED <<messageMap, timeoutsMade, timeoutMsg, completed, reported, putMsg,
                   putEntry, putTimeout, putStored, putResult>>

\* withProgress calls the task it was given: resolve(progress).
ProgressTask(call) ==
    /\ MsgFrame
    /\ putPc[call] = "showing"
    /\ progress' = [progress EXCEPT ![putTimeout[call]] = "shown"]
    /\ putPc' = [putPc EXCEPT ![call] = "resolved"]
    /\ UNCHANGED <<messageMap, timeoutsMade, timeoutMsg, completed, reported, putMsg,
                   putEntry, putTimeout, putStored, putResult>>

\* startMessage goes on after `await showMessageWithCancel(...)`:
\* this.messageMap[msgId] = { timeout, progress }.
StoreMessage(call) ==
    /\ MsgFrame
    /\ putPc[call] = "resolved"
    /\ messageMap' = [messageMap EXCEPT ![putMsg[call]] = putTimeout[call]]
    /\ putPc' = [putPc EXCEPT ![call] = "stored"]
    /\ UNCHANGED <<timeoutsMade, timeoutMsg, completed, progress, reported, putMsg,
                   putEntry, putTimeout, putStored, putResult>>

\* putMessage goes on after `await this.startMessage(...)`:
\* message = this.messageMap[msgId], report, return message.timeout.
ProgressResolved(call) ==
    /\ MsgFrame
    /\ putPc[call] = "stored"
    /\ LET message == messageMap[putMsg[call]]
       IN /\ reported' = Report(reported, message, progress[message], putEntry[call])
          /\ putResult' = [putResult EXCEPT ![call] = message]
    /\ putPc' = [putPc EXCEPT ![call] = "returned"]
    /\ UNCHANGED <<messageMap, timeoutsMade, timeoutMsg, completed, progress, putMsg,
                   putEntry, putTimeout, putStored>>

\* A Timeout completes: its time is over, or it is cancelled (the Cancel
\* button of its notification, or the caller that holds it).
TimeoutCompletes(timeout) ==
    /\ MsgFrame
    /\ timeout <= timeoutsMade
    /\ timeout \notin completed
    /\ completed' = completed \cup {timeout}
    /\ UNCHANGED <<messageMap, timeoutsMade, timeoutMsg, progress, reported, putPc,
                   putMsg, putEntry, putTimeout, putStored, putResult>>

MsgNext ==
    \/ \E call \in PutCalls :
          \/ PutMessageUpdate(call)
          \/ PutMessageStart(call)
          \/ \E deferred \in BOOLEAN : TimerCallback(call, deferred)
          \/ ProgressTask(call)
          \/ StoreMessage(call)
          \/ ProgressResolved(call)
    \/ \E timeout \in TimeoutIds : TimeoutCompletes(timeout)

(***************************************************************************)
(* EditorContentController (diff views)                                    *)
(***************************************************************************)
\* A file path as path.parse sees it: directory, name, extension. A name is a
\* tuple of its parts, so that a temp name `${name}_modified_${timestamp}` is
\* the original name followed by the two parts added to it.
FilePath(dir, name, ext) == [dir |-> dir, name |-> name, ext |-> ext]
NoPath == FilePath("", <<>>, "")
\* The files of the workspace a diff can be asked for; two share a base name.
OriginalPaths ==
    { FilePath("/a", <<"x">>, ".ts"),
      FilePath("/b", <<"x">>, ".ts"),
      FilePath("/a", <<"y">>, ".ts") }
\* Date.now()
Timestamps == 1..MaxClock
\* path.join(os.tmpdir(), 'amazonq-diff')
tempDir == "/tmp/amazonq-diff"
\* `${originalFile.name}_original_${timestamp}${originalFile.ext}` in tempDir
originalTempFilePath(path, timestamp) ==
    FilePath(tempDir, path.name \o <<"_original_", timestamp>>, path.ext)
\* `${originalFile.name}_modified_${timestamp}${originalFile.ext}` in tempDir
modifiedTempFilePath(path, timestamp) ==
    FilePath(tempDir, path.name \o <<"_modified_", timestamp>>, path.ext)
TempPaths ==
    { originalTempFilePath(p, t) : p \in OriginalPaths, t \in Timestamps }
        \cup { modifiedTempFilePath(p, t) : p \in OriginalPaths, t \in Timestamps }
\* path.basename(originalFilePath)
basename(path) == <<path.name, path.ext>>
\* amazonQTabSuffix (shared/constants)
amazonQTabSuffix == "amazonQTabSuffix"
\* `${path.basename(originalFilePath)} ${amazonQTabSuffix}`: the title given to
\* vscode.diff, which becomes the label of the tab.
DiffTitleNameOnly(path) == <<path.name, amazonQTabSuffix>>
DiffTitle(path) == <<basename(path), amazonQTabSuffix>>
\* The label setupSaveHandler compares closed tabs with: `${fileName} ${amazonQTabSuffix}`
CleanupLabel(fileName) == <<fileName, amazonQTabSuffix>>

Absent == "<absent>"

\* The ViewDiffMessage: context?.activeFileContext?.filePath ("undefined",
\* "empty" for '', or "set") and .fileText (hasText FALSE: undefined).
\* .code (hasCode FALSE: undefined) is a string of characters, and
\* context.focusAreaContext has a selection or not.
CodeMessage(context, hasPath, filePath, hasText, fileText, hasCode, code, selection) ==
    [context |-> context, hasPath |-> hasPath, filePath |-> filePath,
     hasText |-> hasText, fileText |-> fileText,
     hasCode |-> hasCode, code |-> code, selection |-> selection]
ViewDiffMessage(context, hasPath, filePath, hasText, fileText) ==
    CodeMessage(context, hasPath, filePath, hasText, fileText, TRUE, << "n", "e", "w" >>,
                context)
NoMessage == ViewDiffMessage(FALSE, "undefined", NoPath, FALSE, "")
ViewDiffMessages ==
    { NoMessage,
      ViewDiffMessage(TRUE, "undefined", NoPath, TRUE, "old"),
      ViewDiffMessage(TRUE, "empty", NoPath, TRUE, "old") }
    \cup { ViewDiffMessage(TRUE, "set", FilePath("/a", <<"x">>, ".ts"), FALSE, ""),
            ViewDiffMessage(TRUE, "set", FilePath("/a", <<"x">>, ".ts"), TRUE, "") }
    \cup { ViewDiffMessage(TRUE, "set", p, TRUE, "old") : p \in OriginalPaths }
\* The messages given to acceptDiff and viewDiffReadOnly.
CodeMessages ==
    { CodeMessage(TRUE, "set", FilePath("/a", <<"x">>, ".ts"), TRUE, "old",
                  TRUE, << "n", "e", "w" >>, TRUE),
      CodeMessage(TRUE, "set", FilePath("/a", <<"y">>, ".ts"), TRUE, "old",
                  TRUE, << "n", "e", "w" >>, TRUE),
      CodeMessage(TRUE, "set", FilePath("/a", <<"x">>, ".ts"), TRUE, "old",
                  TRUE, << " ", "\\u00A0", "\f", "\n" >>, TRUE),
      CodeMessage(TRUE, "set", FilePath("/a", <<"x">>, ".ts"), TRUE, "old",
                  TRUE, << "n", "e", "w" >>, FALSE) }

\* extractFileAndCodeSelectionFromMessage(message).filePath, as a condition.
ExtractedFilePath(message) == message.context /\ message.hasPath = "set"

\* The characters String.prototype.trim removes, each one unit of a string:
\* the WhiteSpace code points (tab, vertical tab, form feed, space, no-break
\* space, zero width no-break space and the space separators of Unicode) and
\* the LineTerminator code points.
WhiteSpace ==
    { "\t", "\\v", "\f", " ", "\\u00A0", "\\uFEFF",
      "\\u1680", "\\u2000", "\\u2001", "\\u2002", "\\u2003", "\\u2004", "\\u2005",
      "\\u2006", "\\u2007", "\\u2008", "\\u2009", "\\u200A", "\\u202F", "\\u205F",
      "\\u3000" }
LineTerminator == { "\n", "\r", "\\u2028", "\\u2029" }

\* code.trim().length is 0
IsBlank(code) == \A i \in 1..Len(code) : code[i] \in WhiteSpace \cup LineTerminator

\* The scheme argument: the default amazonQDiffScheme or a custom one.
Schemes == {"amazonQDiffScheme", "custom-scheme"}

\* A call viewDiff makes on fs, vscode.commands, vscode.workspace or
\* vscode.window.tabGroups, with its arguments.
ApiCall(api, path, content, left, right, title) ==
    [api |-> api, path |-> path, content |-> content, left |-> left, right |-> right,
     title |-> title]
NoTitle == <<<<<<>>, "">>, "">>
ReadFileText(path) == ApiCall("fs.readFileText", path, "", NoPath, NoPath, NoTitle)
Mkdir == ApiCall("fs.mkdir", FilePath(tempDir, <<>>, ""), "", NoPath, NoPath, NoTitle)
WriteFile(path, content) == ApiCall("fs.writeFile", path, content, NoPath, NoPath, NoTitle)
ExecuteDiff(left, right, title) == ApiCall("vscode.diff", NoPath, "", left, right, title)
OnDidSaveTextDocument ==
    ApiCall("workspace.onDidSaveTextDocument", NoPath, "", NoPath, NoPath, NoTitle)
OnDidChangeTabs ==
    ApiCall("tabGroups.onDidChangeTabs", NoPath, "", NoPath, NoPath, NoTitle)

\* A variant of the condition that does not look at the file text.
HasPathOnly(message) ==
    message.context /\ message.hasPath = "set"

\* if (originalFilePath && originalContent !== undefined)
HasPathAndText(message) ==
    message.context /\ message.hasPath = "set" /\ message.hasText

\* The two temp files are written original first, modified second.
TempWrites(path, timestamp, originalContent, modifiedContent) ==
    << WriteFile(originalTempFilePath(path, timestamp), originalContent),
       WriteFile(modifiedTempFilePath(path, timestamp), modifiedContent) >>

\* The other subsystems do not move.
DiffFrame == UNCHANGED <<chatVars, streamVars, owVars, msgVars, wsVars, pkVars, capVars>>

\* Before any call on the controller, with the workspace files as given.
DiffStart(disk) ==
    /\ files = disk
    /\ now = 1
    /\ vdPc = "idle"
    /\ vdMethod = "none"
    /\ vdMsg = NoMessage
    /\ vdScheme = "amazonQDiffScheme"
    /\ vdModified = ""
    /\ vdTimestamp = 0
    /\ vdLog = <<>>
    /\ vdCalls = 0
    /\ views = <<>>
    /\ openTabs = {}
    /\ closing = {}
    /\ copies = <<>>
    /\ deleting = [p \in TempPaths |-> 0]
    /\ diffOp = [op |-> "new", tab |-> 0, content |-> ""]

\* new EditorContentController(); the workspace files exist (one may not).
DiffInit ==
    \E missing \in SUBSET {FilePath("/a", <<"y">>, ".ts")} :
        DiffStart([p \in OriginalPaths \cup TempPaths |->
                      IF p \in OriginalPaths \ missing THEN "current" ELSE Absent])

\* new EditorContentController(), every workspace file present.
DiffIdle ==
    DiffStart([p \in OriginalPaths \cup TempPaths |->
                  IF p \in OriginalPaths THEN "current" ELSE Absent])

\* viewDiff(message, scheme) up to `await fs.readFileText(originalFilePath)`,
\* or to its return when the message has no file path or no file text.
ViewDiff ==
    /\ DiffFrame
    /\ vdPc = "idle"
    /\ vdCalls < MaxViewDiffs
    /\ vdCalls' = vdCalls + 1
    /\ vdMethod' = "viewDiff"
    /\ \E message \in ViewDiffMessages, scheme \in Schemes :
          /\ vdMsg' = message
          /\ vdScheme' = scheme
          /\ IF HasPathAndText(message)
             THEN /\ vdPc' = "readFileText"
                  /\ vdLog' = << ReadFileText(message.filePath) >>
             ELSE /\ vdPc' = "returned"
                  /\ vdLog' = <<>>
    /\ vdModified' = ""
    /\ vdTimestamp' = 0
    /\ diffOp' = [op |-> "viewDiff", tab |-> 0, content |-> ""]
    /\ UNCHANGED <<files, now, views, openTabs, closing, copies, deleting>>

\* fs.readFileText resolves with the file's content (fs.mkdir is called
\* next), or rejects when the file does not exist (viewDiff throws).
ReadFileTextSettled ==
    /\ DiffFrame
    /\ vdPc = "readFileText"
    /\ IF files[vdMsg.filePath] # Absent
       THEN /\ vdModified' = files[vdMsg.filePath]
            /\ vdLog' = Append(vdLog, Mkdir)
            /\ vdPc' = "mkdir"
       ELSE /\ vdPc' = "threw"
            /\ UNCHANGED <<vdModified, vdLog>>
    /\ diffOp' = [op |-> "step", tab |-> 0, content |-> ""]
    /\ UNCHANGED <<files, now, vdMethod, vdMsg, vdScheme, vdTimestamp, vdCalls, views,
                   openTabs, closing, copies, deleting>>

\* fs.mkdir resolves: timestamp = Date.now(), the original temp file is written.
MkdirResolved ==
    /\ DiffFrame
    /\ vdPc = "mkdir"
    /\ vdTimestamp' = now
    /\ vdLog' = Append(vdLog,
                    TempWrites(vdMsg.filePath, now, vdMsg.fileText, vdModified)[1])
    /\ vdPc' = "writeOriginal"
    /\ diffOp' = [op |-> "step", tab |-> 0, content |-> ""]
    /\ UNCHANGED <<files, now, vdMethod, vdMsg, vdScheme, vdModified, vdCalls, views,
                   openTabs, closing, copies, deleting>>

\* The first fs.writeFile resolves: the modified temp file is written.
WriteOriginalResolved ==
    /\ DiffFrame
    /\ vdPc = "writeOriginal"
    /\ LET writes == TempWrites(vdMsg.filePath, vdTimestamp, vdMsg.fileText, vdModified)
       IN /\ files' = [files EXCEPT ![writes[1].path] = writes[1].content]
          /\ vdLog' = Append(vdLog, writes[2])
    /\ vdPc' = "writeModified"
    /\ diffOp' = [op |-> "step", tab |-> 0, content |-> ""]
    /\ UNCHANGED <<now, vdMethod, vdMsg, vdScheme, vdModified, vdTimestamp, vdCalls, views,
                   openTabs, closing, copies, deleting>>

\* The second fs.writeFile resolves: vscode.diff is executed on the two files.
WriteModifiedResolved ==
    /\ DiffFrame
    /\ vdPc = "writeModified"
    /\ LET writes == TempWrites(vdMsg.filePath, vdTimestamp, vdMsg.fileText, vdModified)
       IN /\ files' = [files EXCEPT ![writes[2].path] = writes[2].content]
          /\ vdLog' = Append(vdLog, ExecuteDiff(writes[1].path, writes[2].path,
                                                DiffTitle(vdMsg.filePath)))
    /\ vdPc' = "diff"
    /\ diffOp' = [op |-> "step", tab |-> 0, content |-> ""]
    /\ UNCHANGED <<now, vdMethod, vdMsg, vdScheme, vdModified, vdTimestamp, vdCalls, views,
                   openTabs, closing, copies, deleting>>

\* vscode.diff resolves with the diff tab open; setupSaveHandler registers
\* the save listener and the tab listener, and viewDiff returns.
DiffResolved ==
    /\ DiffFrame
    /\ vdPc = "diff"
    /\ views' = Append(views,
                   [originalFilePath |-> vdMsg.filePath,
                    modifiedTempFilePath |-> vdLog[Len(vdLog)].right,
                    originalTempFilePath |-> vdLog[Len(vdLog)].left,
                    fileName |-> basename(vdMsg.filePath),
                    tabLabel |-> vdLog[Len(vdLog)].title,
                    editable |-> TRUE,
                    saveDisposed |-> FALSE,
                    tabDisposed |-> FALSE])
    /\ copies' = Append(copies, <<>>)
    /\ openTabs' = openTabs \cup {Len(views) + 1}
    /\ vdLog' = vdLog \o << OnDidSaveTextDocument, OnDidChangeTabs >>
    /\ vdPc' = "returned"
    /\ diffOp' = [op |-> "step", tab |-> 0, content |-> ""]
    /\ UNCHANGED <<files, now, vdMethod, vdMsg, vdScheme, vdModified, vdTimestamp, vdCalls,
                   closing, deleting>>

\* fs.mkdir, fs.writeFile or vscode.diff rejects: viewDiff shows 'Unable to
\* Open Diff.' and throws the wrapped error.
ViewDiffRejected ==
    /\ DiffFrame
    /\ vdPc \in {"mkdir", "writeOriginal", "writeModified", "diff"}
    /\ vdPc' = "threw"
    /\ diffOp' = [op |-> "step", tab |-> 0, content |-> ""]
    /\ UNCHANGED <<files, now, vdMethod, vdMsg, vdScheme, vdModified, vdTimestamp, vdLog,
                   vdCalls, views, openTabs, closing, copies, deleting>>

\* Time passes: Date.now() grows. The clock is read only when fs.mkdir
\* resolves, so this is where the time that has passed shows.
Tick ==
    /\ DiffFrame
    /\ vdPc = "mkdir"
    /\ now < MaxClock
    /\ now' = now + 1
    /\ diffOp' = [op |-> "step", tab |-> 0, content |-> ""]
    /\ UNCHANGED <<files, vdPc, vdMethod, vdMsg, vdScheme, vdModified, vdTimestamp, vdLog,
                   vdCalls, views, openTabs, closing, copies, deleting>>

\* viewDiffReadOnly(message, scheme) up to `await createTempUrisForDiff(...)`
\* (the content provider is registered), or to its return when the message
\* has no file path, no code or no selection.
ViewDiffReadOnly ==
    /\ DiffFrame
    /\ vdPc = "idle"
    /\ vdCalls < MaxViewDiffs
    /\ vdCalls' = vdCalls + 1
    /\ vdMethod' = "viewDiffReadOnly"
    /\ \E message \in CodeMessages, scheme \in Schemes :
          /\ vdMsg' = message
          /\ vdScheme' = scheme
          /\ vdPc' = IF ExtractedFilePath(message) /\ message.hasCode /\ message.selection
                     THEN "tempUris" ELSE "returned"
    /\ vdModified' = ""
    /\ vdTimestamp' = 0
    /\ vdLog' = <<>>
    /\ diffOp' = [op |-> "step", tab |-> 0, content |-> ""]
    /\ UNCHANGED <<files, now, views, openTabs, closing, copies, deleting>>

\* createTempUrisForDiff resolves: vscode.diff is executed on the two uris of
\* the scheme, titled like the editable diff.
TempUrisResolved ==
    /\ DiffFrame
    /\ vdPc = "tempUris"
    /\ vdPc' = "readOnlyDiff"
    /\ diffOp' = [op |-> "step", tab |-> 0, content |-> ""]
    /\ UNCHANGED <<files, now, vdMethod, vdMsg, vdScheme, vdModified, vdTimestamp, vdLog,
                   vdCalls, views, openTabs, closing, copies, deleting>>

\* vscode.diff resolves with the read-only diff tab open: no save listener
\* and no tab listener of the controller comes with this tab.
ReadOnlyDiffResolved ==
    /\ DiffFrame
    /\ vdPc = "readOnlyDiff"
    /\ views' = Append(views,
                   [originalFilePath |-> vdMsg.filePath,
                    modifiedTempFilePath |-> NoPath,
                    originalTempFilePath |-> NoPath,
                    fileName |-> basename(vdMsg.filePath),
                    tabLabel |-> DiffTitle(vdMsg.filePath),
                    editable |-> FALSE,
                    saveDisposed |-> TRUE,
                    tabDisposed |-> TRUE])
    /\ copies' = Append(copies, <<>>)
    /\ openTabs' = openTabs \cup {Len(views) + 1}
    /\ vdPc' = "returned"
    /\ diffOp' = [op |-> "step", tab |-> 0, content |-> ""]
    /\ UNCHANGED <<files, now, vdMethod, vdMsg, vdScheme, vdModified, vdTimestamp, vdLog,
                   vdCalls, closing, deleting>>

\* acceptDiff(message) up to `await vscode.workspace.openTextDocument(filePath)`,
\* or to its return when the message has no file path, no code but blanks,
\* or no selection.
AcceptDiff ==
    /\ DiffFrame
    /\ vdPc = "idle"
    /\ vdCalls < MaxViewDiffs
    /\ vdCalls' = vdCalls + 1
    /\ vdMethod' = "acceptDiff"
    /\ \E message \in CodeMessages :
          /\ vdMsg' = message
          /\ vdPc' = IF /\ ExtractedFilePath(message)
                        /\ message.hasCode /\ ~IsBlank(message.code)
                        /\ message.selection
                     THEN "openTextDocument" ELSE "returned"
    /\ vdScheme' = "amazonQDiffScheme"
    /\ vdModified' = ""
    /\ vdTimestamp' = 0
    /\ vdLog' = <<>>
    /\ diffOp' = [op |-> "step", tab |-> 0, content |-> ""]
    /\ UNCHANGED <<files, now, views, openTabs, closing, copies, deleting>>

\* openTextDocument resolves (a file that does not exist makes it reject):
\* applyChanges is called with the document, the range and the indented code.
OpenTextDocumentSettled ==
    /\ DiffFrame
    /\ vdPc = "openTextDocument"
    /\ vdPc' = IF files[vdMsg.filePath] # Absent THEN "applyChanges" ELSE "threw"
    /\ diffOp' = [op |-> "step", tab |-> 0, content |-> ""]
    /\ UNCHANGED <<files, now, vdMethod, vdMsg, vdScheme, vdModified, vdTimestamp, vdLog,
                   vdCalls, views, openTabs, closing, copies, deleting>>

\* applyChanges resolves: the code is in the file when the edit was applied
\* and saved; showTextDocument is called.
ApplyChangesResolved(applied) ==
    /\ DiffFrame
    /\ vdPc = "applyChanges"
    /\ files' = IF applied THEN [files EXCEPT ![vdMsg.filePath] = "accepted"] ELSE files
    /\ vdPc' = "showTextDocument"
    /\ diffOp' = [op |-> "step", tab |-> 0, content |-> ""]
    /\ UNCHANGED <<now, vdMethod, vdMsg, vdScheme, vdModified, vdTimestamp, vdLog, vdCalls,
                   views, openTabs, closing, copies, deleting>>

\* showTextDocument resolves: the selection is set, and tabGroups.close is
\* called for every tab labelled `${path.basename(filePath)} ${amazonQTabSuffix}`.
ShowTextDocumentResolved ==
    /\ DiffFrame
    /\ vdPc = "showTextDocument"
    /\ closing' = closing \cup
                    { t \in openTabs : views[t].tabLabel = DiffTitle(vdMsg.filePath) }
    /\ vdPc' = "returned"
    /\ diffOp' = [op |-> "step", tab |-> 0, content |-> ""]
    /\ UNCHANGED <<files, now, vdMethod, vdMsg, vdScheme, vdModified, vdTimestamp, vdLog,
                   vdCalls, views, openTabs, copies, deleting>>

\* createTempUrisForDiff or vscode.diff of viewDiffReadOnly rejects, or
\* applyChanges or showTextDocument of acceptDiff: the method shows its
\* notification and throws the wrapped error.
CallRejected ==
    /\ DiffFrame
    /\ vdPc \in {"tempUris", "readOnlyDiff", "applyChanges", "showTextDocument"}
    /\ vdPc' = "threw"
    /\ diffOp' = [op |-> "step", tab |-> 0, content |-> ""]
    /\ UNCHANGED <<files, now, vdMethod, vdMsg, vdScheme, vdModified, vdTimestamp, vdLog,
                   vdCalls, views, openTabs, closing, copies, deleting>>

\* The promise of the call is settled: the caller that awaits it runs next,
\* before any event or file operation is delivered.
CallSettled == vdPc \in {"returned", "threw"}

\* The caller has taken the outcome of the call; nothing of the call is left
\* but the files, the tabs and the listeners.
CallOver ==
    /\ DiffFrame
    /\ CallSettled
    /\ vdPc' = "idle"
    /\ vdMethod' = "none"
    /\ vdMsg' = NoMessage
    /\ vdScheme' = "amazonQDiffScheme"
    /\ vdModified' = ""
    /\ vdTimestamp' = 0
    /\ vdLog' = <<>>
    /\ diffOp' = [op |-> "step", tab |-> 0, content |-> ""]
    /\ UNCHANGED <<files, now, vdCalls, views, openTabs, closing, copies, deleting>>

\* The save listeners that take a save of `document`: registered, not
\* disposed, and set up for that modified temp file.
SaveListeners(document) ==
    { k \in 1..Len(views) :
        ~views[k].saveDisposed /\ views[k].modifiedTempFilePath = document }

\* The user edits the modified side of an open diff tab and saves it: the
\* document is written to the temp file and onDidSaveTextDocument fires; each
\* listener for that document calls fs.readFileText on the temp file.
SaveModified(tab) ==
    /\ DiffFrame
    /\ ~CallSettled
    /\ tab \in openTabs
    /\ views[tab].editable
    /\ LET document == views[tab].modifiedTempFilePath
           hit == SaveListeners(document)
       IN /\ \A k \in hit : Len(copies[k]) < MaxCopies
          /\ files' = [files EXCEPT ![document] = "edited"]
          /\ copies' = [k \in 1..Len(copies) |->
                           IF k \in hit
                           THEN Append(copies[k], [pc |-> "read", content |-> ""])
                           ELSE copies[k]]
    /\ diffOp' = [op |-> "save", tab |-> tab, content |-> "edited"]
    /\ UNCHANGED <<now, vdPc, vdMethod, vdMsg, vdScheme, vdModified, vdTimestamp, vdLog,
                   vdCalls, views, openTabs, closing, deleting>>

\* A sequence without its element i.
Without(seq, i) == SubSeq(seq, 1, i - 1) \o SubSeq(seq, i + 1, Len(seq))

\* fs.readFileText(modifiedTempFilePath) of a save listener settles: with the
\* content of the temp file fs.writeFile(originalFilePath, ...) is called; a
\* rejection (the file is gone, or any other) is logged and shown as
\* 'Failed to save changes to ...'.
CopyReadSettled(k, i, rejects) ==
    /\ DiffFrame
    /\ ~CallSettled
    /\ k \in 1..Len(copies)
    /\ i \in 1..Len(copies[k])
    /\ copies[k][i].pc = "read"
    /\ LET content == files[views[k].modifiedTempFilePath]
       IN IF rejects \/ content = Absent
          THEN /\ copies' = [copies EXCEPT ![k] = Without(@, i)]
               /\ diffOp' = [op |-> "step", tab |-> 0, content |-> ""]
          ELSE /\ copies' = [copies EXCEPT ![k][i] = [pc |-> "write", content |-> content]]
               /\ diffOp' = [op |-> "step", tab |-> 0, content |-> ""]
    /\ UNCHANGED <<files, now, vdPc, vdMethod, vdMsg, vdScheme, vdModified, vdTimestamp,
                   vdLog, vdCalls, views, openTabs, closing, deleting>>

\* fs.writeFile(originalFilePath, modifiedContent) of a save listener
\* settles: the original file has the content and 'Changes saved to ...' is
\* shown, or the rejection is logged and shown.
CopyWriteSettled(k, i, rejects) ==
    /\ DiffFrame
    /\ ~CallSettled
    /\ k \in 1..Len(copies)
    /\ i \in 1..Len(copies[k])
    /\ copies[k][i].pc = "write"
    /\ copies' = [copies EXCEPT ![k] = Without(@, i)]
    /\ IF rejects
       THEN /\ diffOp' = [op |-> "step", tab |-> 0, content |-> ""]
            /\ UNCHANGED files
       ELSE /\ files' = [files EXCEPT ![views[k].originalFilePath] = copies[k][i].content]
            /\ diffOp' = [op |-> "copied", tab |-> k, content |-> copies[k][i].content]
    /\ UNCHANGED <<now, vdPc, vdMethod, vdMsg, vdScheme, vdModified, vdTimestamp, vdLog,
                   vdCalls, views, openTabs, closing, deleting>>

\* The tab listeners that clean up when a tab with `label` closes.
TabListeners(label) ==
    { k \in 1..Len(views) :
        ~views[k].tabDisposed /\ label = CleanupLabel(views[k].fileName) }

\* A diff tab closes (the user closes it, or tabGroups.close was called for
\* it): onDidChangeTabs fires with it in event.closed, each listener whose
\* label matches calls fs.delete for its two temp files, without waiting for
\* them, and disposes its two listeners.
CloseTab(tab) ==
    /\ DiffFrame
    /\ ~CallSettled
    /\ tab \in openTabs
    /\ openTabs' = openTabs \ {tab}
    /\ closing' = closing \ {tab}
    /\ LET hit == TabListeners(views[tab].tabLabel)
       IN /\ deleting' = [p \in TempPaths |->
                             deleting[p]
                               + Cardinality({ k \in hit : views[k].modifiedTempFilePath = p })
                               + Cardinality({ k \in hit : views[k].originalTempFilePath = p })]
          /\ views' = [k \in 1..Len(views) |->
                          IF k \in hit
                          THEN [views[k] EXCEPT !.saveDisposed = TRUE, !.tabDisposed = TRUE]
                          ELSE views[k]]
    /\ diffOp' = [op |-> "close", tab |-> tab, content |-> ""]
    /\ UNCHANGED <<files, now, vdPc, vdMethod, vdMsg, vdScheme, vdModified, vdTimestamp,
                   vdLog, vdCalls, copies>>

\* An fs.delete of a temp file settles: the file is gone, or the failure is
\* logged and the file stays.
DeleteSettled(path, rejects) ==
    /\ DiffFrame
    /\ ~CallSettled
    /\ deleting[path] > 0
    /\ deleting' = [deleting EXCEPT ![path] = @ - 1]
    /\ files' = IF rejects THEN files ELSE [files EXCEPT ![path] = Absent]
    /\ diffOp' = [op |-> "step", tab |-> 0, content |-> ""]
    /\ UNCHANGED <<now, vdPc, vdMethod, vdMsg, vdScheme, vdModified, vdTimestamp, vdLog,
                   vdCalls, views, openTabs, closing, copies>>

DiffNext ==
    \/ ViewDiff
    \/ ReadFileTextSettled
    \/ MkdirResolved
    \/ WriteOriginalResolved
    \/ WriteModifiedResolved
    \/ DiffResolved
    \/ ViewDiffRejected
    \/ Tick
    \/ ViewDiffReadOnly
    \/ TempUrisResolved
    \/ ReadOnlyDiffResolved
    \/ AcceptDiff
    \/ OpenTextDocumentSettled
    \/ \E applied \in BOOLEAN : ApplyChangesResolved(applied)
    \/ ShowTextDocumentResolved
    \/ CallRejected
    \/ CallOver
    \/ \E tab \in 1..MaxViewDiffs : SaveModified(tab)
    \/ \E k \in 1..MaxViewDiffs, i \in 1..MaxCopies, rejects \in BOOLEAN :
          CopyReadSettled(k, i, rejects)
    \/ \E k \in 1..MaxViewDiffs, i \in 1..MaxCopies, rejects \in BOOLEAN :
          CopyWriteSettled(k, i, rejects)
    \/ \E tab \in 1..MaxViewDiffs : CloseTab(tab)
    \/ \E path \in TempPaths, rejects \in BOOLEAN : DeleteSettled(path, rejects)

(***************************************************************************)
(* getWorkspaceFoldersByPrefixes (workspace folder prefixes for the zip)   *)
(***************************************************************************)
\* Strings are sequences of characters here, so that split, join and
\* sanitizeFilename work on them as they do in the code.
maximumFolderDepthConsidered == 500
maximumFoldersWithMatchingSubfolders == 10000

\* A vscode.WorkspaceFolder: its name and its uri.fsPath.
WorkspaceFolder(name, fsPath) == [name |-> name, fsPath |-> fsPath]

\* The folders a workspace is made of in this model: two folders named alike
\* under different parents, two whose paths differ only in a character that
\* sanitizeFilename may replace, and two whose names are what the function
\* makes up for other folders, one named like a property of
\* Object.prototype, and two whose names are integers.
FolderPool ==
    { WorkspaceFolder(<<"c">>, <<"/", "p", "/", "a", "/", "c">>),
      WorkspaceFolder(<<"c">>, <<"/", "p", "/", "b", "/", "c">>),
      WorkspaceFolder(<<"x">>, <<"/", "p", "/", "a", " ", "b">>),
      WorkspaceFolder(<<"x">>, <<"/", "p", "/", "a", "_", "b">>),
      WorkspaceFolder(<<"p", "_", "a", "_", "b", "_", "x", "_", "1">>, <<"/", "q">>),
      WorkspaceFolder(<<"b", "_", "c", "_", "c">>, <<"/", "r">>),
      WorkspaceFolder(<< "c", "o", "n", "s", "t", "r", "u", "c", "t", "o", "r" >>, <<"/", "s">>),
      WorkspaceFolder(<<"2">>, <<"/", "p", "/", "2">>),
      WorkspaceFolder(<<"1", "0">>, <<"/", "p", "/", "1", "0">>) }

\* Characters a file name can hold on a file system whose path.sep is '/'.
AlikeChars == << " ", "\t", ":", "*", "?", "\"", "<", ">", "|", "\\", "_" >>

\* A large workspace: folders named alike whose parents differ in one
\* character only, and a folder whose name is what the function makes up for
\* the tenth folder that shares a prefix.
AlikeFolders ==
    [i \in 1..Len(AlikeChars) |->
        WorkspaceFolder(<<"x">>, <<"/", "p", "/", AlikeChars[i], "/", "x">>)]
TenthNamed == WorkspaceFolder(<<"p", "_", "_", "_", "x", "_", "x", "_", "1", "0">>, <<"/", "q">>)
LargeWorkspaces == { AlikeFolders, << TenthNamed >> \o AlikeFolders }

\* The folder lists: no folder twice, as in a vscode workspace.
FolderLists ==
    UNION { { fs \in [1..n -> FolderPool] : \A i, j \in 1..n : i # j => fs[i] # fs[j] } :
            n \in 0..MaxFolders }
        \cup LargeWorkspaces

\* String.prototype.split(path.sep) with path.sep '/'.
RECURSIVE SplitFrom(_, _, _)
SplitFrom(str, i, current) ==
    IF i > Len(str) THEN << current >>
    ELSE IF str[i] = "/" THEN << current >> \o SplitFrom(str, i + 1, <<>>)
    ELSE SplitFrom(str, i + 1, Append(current, str[i]))
Split(str) == SplitFrom(str, 1, <<>>)

\* Array.prototype.reverse
Reverse(seq) == [i \in 1..Len(seq) |-> seq[Len(seq) + 1 - i]]

\* Array.prototype.slice(0, n)
SliceTo(seq, n) == SubSeq(seq, 1, IF n < Len(seq) THEN n ELSE Len(seq))

\* path.join(a, b) for two path segments without '.' or '..' parts.
PathJoin(a, b) ==
    IF a = <<>> /\ b = <<>> THEN << "." >>
    ELSE IF a = <<>> THEN b
    ELSE IF b = <<>> THEN a
    ELSE a \o << "/" >> \o b

\* sanitizeFilename is imported from './textUtilities' and called on
\* path.join(subDir, candidate); the function is given a string and gives a
\* string, and nothing else about it is fixed here. The call is made with
\* each of these functions: one that gives its input back, one that replaces
\* each character of a set by '_', one that removes these characters, and
\* one that gives the same string for every input.
Sanitizers == { "keeps", "replaces", "removes", "same" }
SanitizedChars == { "/", "\\", ":", "*", "?", "\"", "<", ">", "|", " ", "\t" }
sanitizeFilename(input) ==
    CASE wsSanitizer = "keeps" -> input
      [] wsSanitizer = "replaces" ->
            [i \in 1..Len(input) |-> IF input[i] \in SanitizedChars THEN "_" ELSE input[i]]
      [] wsSanitizer = "removes" -> SelectSeq(input, LAMBDA c : c \notin SanitizedChars)
      [] wsSanitizer = "same" -> << "_" >>

\* .reduce((candidates, subDir) => { candidates.push(sanitizeFilename(
\*     path.join(subDir, candidates[candidates.length - 1]))); ... }, [f.name])
RECURSIVE PrefixCandidates(_, _, _)
PrefixCandidates(subDirs, i, candidates) ==
    IF i > Len(subDirs) THEN candidates
    ELSE PrefixCandidates(subDirs, i + 1,
            Append(candidates,
                   sanitizeFilename(PathJoin(subDirs[i], candidates[Len(candidates)]))))

\* preferredPrefixQueue of a folder: the candidates, shortest last (pop takes
\* the folder's name first, then the name with one parent, and so on).
preferredPrefixQueue(f) ==
    Reverse(PrefixCandidates(
                SliceTo(Reverse(Split(f.fsPath)), maximumFolderDepthConsidered),
                1, << f.name >>))

\* folders.map((f) => ({ folder: f, preferredPrefixQueue: ... }))
ToMap(folders) ==
    [i \in 1..Len(folders) |->
        [folder |-> folders[i], preferredPrefixQueue |-> preferredPrefixQueue(folders[i])]]

\* The names every plain object inherits from Object.prototype.
ObjectPrototypeNames ==
    { << "c", "o", "n", "s", "t", "r", "u", "c", "t", "o", "r" >>,
      << "_", "_", "d", "e", "f", "i", "n", "e", "G", "e", "t", "t", "e", "r", "_", "_" >>,
      << "_", "_", "d", "e", "f", "i", "n", "e", "S", "e", "t", "t", "e", "r", "_", "_" >>,
      << "h", "a", "s", "O", "w", "n", "P", "r", "o", "p", "e", "r", "t", "y" >>,
      << "_", "_", "l", "o", "o", "k", "u", "p", "G", "e", "t", "t", "e", "r", "_", "_" >>,
      << "_", "_", "l", "o", "o", "k", "u", "p", "S", "e", "t", "t", "e", "r", "_", "_" >>,
      << "i", "s", "P", "r", "o", "t", "o", "t", "y", "p", "e", "O", "f" >>,
      << "p", "r", "o", "p", "e", "r", "t", "y", "I", "s", "E", "n", "u", "m", "e", "r", "a", "b", "l", "e" >>,
      << "t", "o", "S", "t", "r", "i", "n", "g" >>,
      << "v", "a", "l", "u", "e", "O", "f" >>,
      << "_", "_", "p", "r", "o", "t", "o", "_", "_" >>,
      << "t", "o", "L", "o", "c", "a", "l", "e", "S", "t", "r", "i", "n", "g" >> }

\* results[prefix] === undefined; results is a plain object, here the set of
\* its own <<prefix, folder>> entries.
IsUnmappedAlways(results, prefix) == TRUE
IsUnmapped(results, prefix) ==
    prefix \notin ObjectPrototypeNames /\ \A entry \in results : entry[1] # prefix

\* results[prefix] = folder
Assign(results, prefix, folder) ==
    { entry \in results : entry[1] # prefix } \cup { << prefix, folder >> }

\* Position of prefix among the groups collected so far, 0 if it is new.
GroupIndex(groups, prefix) ==
    IF \E i \in 1..Len(groups) : groups[i].prefix = prefix
    THEN CHOOSE i \in 1..Len(groups) : groups[i].prefix = prefix
    ELSE 0

\* remainingWorkspaceFoldersToMap.reduce(...): each folder pops its next
\* prefix and joins the group of that prefix; groups are kept in insertion
\* order here. A folder with an empty queue makes the reduce throw a
\* ToolkitError; for a prefix that acc, a plain object, inherits,
\* acc[prefix] ?? [] is the inherited value and its push is not a function.
RECURSIVE GroupByPrefix(_, _, _)
GroupByPrefix(remaining, i, groups) ==
    IF i > Len(remaining) THEN [threw |-> "", groups |-> groups]
    ELSE LET queue == remaining[i].preferredPrefixQueue
         IN IF queue = <<>> THEN [threw |-> "ToolkitError", groups |-> groups]
            ELSE IF queue[Len(queue)] \in ObjectPrototypeNames
            THEN [threw |-> "TypeError", groups |-> groups]
            ELSE LET prefix == queue[Len(queue)]
                     wsFolder == [remaining[i] EXCEPT
                                     !.preferredPrefixQueue = SubSeq(queue, 1, Len(queue) - 1)]
                     g == GroupIndex(groups, prefix)
                 IN GroupByPrefix(remaining, i + 1,
                        IF g = 0
                        THEN Append(groups, [prefix |-> prefix, folders |-> << wsFolder >>])
                        ELSE [groups EXCEPT ![g].folders = Append(@, wsFolder)])

\* The characters of the decimal digits, and their values.
Digits == { "0", "1", "2", "3", "4", "5", "6", "7", "8", "9" }
DigitValue(c) ==
    CASE c = "0" -> 0 [] c = "1" -> 1 [] c = "2" -> 2 [] c = "3" -> 3 [] c = "4" -> 4
      [] c = "5" -> 5 [] c = "6" -> 6 [] c = "7" -> 7 [] c = "8" -> 8 [] c = "9" -> 9

\* a <= b for two strings of digits of the same length.
RECURSIVE DigitsLeq(_, _)
DigitsLeq(a, b) ==
    IF a = <<>> THEN TRUE
    ELSE IF DigitValue(Head(a)) # DigitValue(Head(b))
    THEN DigitValue(Head(a)) < DigitValue(Head(b))
    ELSE DigitsLeq(Tail(a), Tail(b))

\* a <= b for the numbers two canonical decimal strings write.
NumberLeq(a, b) == Len(a) < Len(b) \/ (Len(a) = Len(b) /\ DigitsLeq(a, b))

\* The greatest array index, 2^32 - 2.
MaxArrayIndex == << "4", "2", "9", "4", "9", "6", "7", "2", "9", "4" >>

\* An integer-like property key: the canonical decimal form of an array index.
IsIntegerKey(key) ==
    /\ key # <<>>
    /\ \A i \in 1..Len(key) : key[i] \in Digits
    /\ (Len(key) > 1 => key[1] # "0")
    /\ NumberLeq(key, MaxArrayIndex)

\* Object.entries(workspacesByPrefixes): the integer-like keys first, in
\* ascending order, then the other keys in insertion order.
RECURSIVE SortByNumber(_)
SortByNumber(groups) ==
    IF groups = <<>> THEN <<>>
    ELSE LET least == CHOOSE i \in 1..Len(groups) :
                          \A j \in 1..Len(groups) :
                              NumberLeq(groups[i].prefix, groups[j].prefix)
         IN << groups[least] >> \o
            SortByNumber(SubSeq(groups, 1, least - 1) \o SubSeq(groups, least + 1, Len(groups)))
ObjectEntries(groups) ==
    SortByNumber(SelectSeq(groups, LAMBDA g : IsIntegerKey(g.prefix)))
        \o SelectSeq(groups, LAMBDA g : ~IsIntegerKey(g.prefix))

\* `${suffix}`: the decimal digits of a positive integer.
DigitChars == << "0", "1", "2", "3", "4", "5", "6", "7", "8", "9" >>
RECURSIVE Decimal(_)
Decimal(n) ==
    IF n < 10 THEN << DigitChars[n + 1] >>
    ELSE Append(Decimal(n \div 10), DigitChars[(n % 10) + 1])

\* `${prefix}_${suffix}`
Suffixed(prefix, suffix) == prefix \o << "_" >> \o Decimal(suffix)

\* do { newPrefix = `${prefix}_${suffix}`; suffix++; safetyCounter++ }
\* while (results[newPrefix] !== undefined && safetyCounter < maximum...)
RECURSIVE FindSuffix(_, _, _, _)
FindSuffix(results, prefix, suffix, safetyCounter) ==
    LET newPrefix == Suffixed(prefix, suffix)
    IN IF ~IsUnmapped(results, newPrefix)
          /\ safetyCounter + 1 < maximumFoldersWithMatchingSubfolders
       THEN FindSuffix(results, prefix, suffix + 1, safetyCounter + 1)
       ELSE [newPrefix |-> newPrefix, suffix |-> suffix + 1,
             safetyCounter |-> safetyCounter + 1]

\* for (const folder of foldersToSuffix) { ... results[newPrefix] = folder.folder }
RECURSIVE SuffixFolders(_, _, _, _, _)
SuffixFolders(foldersToSuffix, i, prefix, suffix, results) ==
    IF i > Len(foldersToSuffix) THEN [threw |-> FALSE, results |-> results]
    ELSE LET found == FindSuffix(results, prefix, suffix, 0)
         IN IF found.safetyCounter >= maximumFoldersWithMatchingSubfolders
            THEN [threw |-> TRUE, results |-> results]
            ELSE SuffixFolders(foldersToSuffix, i + 1, prefix, found.suffix,
                               Assign(results, found.newPrefix, foldersToSuffix[i].folder))

\* The folders of a group that have more parents / that have none left.
SelectSeq2(seq, keep) ==
    LET F[i \in 0..Len(seq)] ==
            IF i = 0 THEN <<>>
            ELSE IF seq[i] \in keep THEN Append(F[i - 1], seq[i]) ELSE F[i - 1]
    IN F[Len(seq)]

\* for (const [prefix, folders] of Object.entries(workspacesByPrefixes)) { ... }
RECURSIVE MapGroups(_, _, _, _)
MapGroups(groups, i, results, remaining) ==
    IF i > Len(groups) THEN [threw |-> FALSE, results |-> results, remaining |-> remaining]
    ELSE LET prefix == groups[i].prefix
             folders == groups[i].folders
         IN IF Len(folders) = 1 /\ IsUnmapped(results, prefix)
            THEN MapGroups(groups, i + 1, Assign(results, prefix, folders[1].folder),
                           remaining)
            ELSE LET all == { folders[k] : k \in 1..Len(folders) }
                     more == SelectSeq2(folders,
                                { f \in all : Len(f.preferredPrefixQueue) > 0 })
                     foldersToSuffix == SelectSeq2(folders,
                                { f \in all : Len(f.preferredPrefixQueue) = 0 })
                 IN IF Len(foldersToSuffix) = 1 /\ IsUnmapped(results, prefix)
                    THEN MapGroups(groups, i + 1,
                                   Assign(results, prefix, foldersToSuffix[1].folder),
                                   remaining \o more)
                    ELSE LET suffixed == SuffixFolders(foldersToSuffix, 1, prefix, 1,
                                                       results)
                         IN IF suffixed.threw
                            THEN [threw |-> TRUE, results |-> suffixed.results,
                                  remaining |-> remaining \o more]
                            ELSE MapGroups(groups, i + 1, suffixed.results,
                                           remaining \o more)

\* The for loop over addParentFolderCount, and what follows it.
RECURSIVE MapRemaining(_, _, _)
MapRemaining(remaining, addParentFolderCount, results) ==
    IF Len(remaining) > 0 /\ addParentFolderCount < maximumFolderDepthConsidered
    THEN LET grouped == GroupByPrefix(remaining, 1, <<>>)
         IN IF grouped.threw # ""
            THEN [kind |-> "threw", error |-> grouped.threw, mapping |-> {}]
            ELSE LET mapped == MapGroups(ObjectEntries(grouped.groups), 1, results, <<>>)
                 IN IF mapped.threw
                    THEN [kind |-> "threw", error |-> "ToolkitError", mapping |-> {}]
                    ELSE MapRemaining(mapped.remaining, addParentFolderCount + 1,
                                      mapped.results)
    ELSE IF Len(remaining) > 0
    THEN [kind |-> "threw", error |-> "ToolkitError", mapping |-> {}]
    ELSE [kind |-> "mapping", error |-> "", mapping |-> results]

getWorkspaceFoldersByPrefixes(folders) ==
    IF Len(folders) <= 1 THEN [kind |-> "undefined", error |-> "", mapping |-> {}]
    ELSE MapRemaining(ToMap(folders), 0, {})

\* The other subsystems do not move.
WsFrame == UNCHANGED <<chatVars, streamVars, owVars, msgVars, diffVars, pkVars, capVars>>

\* Before the call, for each list of workspace folders.
WsInit ==
    /\ wsFolders \in FolderLists
    /\ wsSanitizer \in Sanitizers
    /\ wsResult = [kind |-> "none", error |-> "", mapping |-> {}]

\* No workspace folder, no call.
WsIdle ==
    /\ wsFolders = <<>>
    /\ wsSanitizer = "keeps"
    /\ wsResult = [kind |-> "none", error |-> "", mapping |-> {}]

\* getWorkspaceFoldersByPrefixes(folders)
GetWorkspaceFoldersByPrefixes ==
    /\ WsFrame
    /\ wsResult.kind = "none"
    /\ wsResult' = getWorkspaceFoldersByPrefixes(wsFolders)
    /\ UNCHANGED <<wsFolders, wsSanitizer>>

WsNext ==
    \/ GetWorkspaceFoldersByPrefixes

(***************************************************************************)
(* The packaging script (scripts/build/package.ts)                         *)
(***************************************************************************)
\* A string is the sequence of its characters; the backtick is written
\* "\\u0060".
\* String.prototype.trim
RECURSIVE TrimStart(_)
TrimStart(str) ==
    IF str # <<>> /\ Head(str) \in WhiteSpace \cup LineTerminator
    THEN TrimStart(Tail(str))
    ELSE str
Trim(str) == Reverse(TrimStart(Reverse(TrimStart(str))))

\* String.prototype.indexOf, counted from 0; -1: not found.
IndexOf(str, word) ==
    LET hits == { i \in 0..(Len(str) - Len(word)) : SubSeq(str, i + 1, i + Len(word)) = word }
    IN IF hits = {} THEN -1 ELSE CHOOSE i \in hits : \A j \in hits : i <= j

\* The option names and the keys of args.
DebugKey == << "d", "e", "b", "u", "g" >>
SkipCleanKey == << "s", "k", "i", "p", "C", "l", "e", "a", "n" >>
FeatureKey == << "f", "e", "a", "t", "u", "r", "e" >>
NoCleanKey == << "n", "o", "-", "c", "l", "e", "a", "n" >>
DebugOption == << "-", "-" >> \o DebugKey
NoCleanOption == << "-", "-" >> \o NoCleanKey
FeatureOption == << "-", "-" >> \o FeatureKey

\* What can stand on the command line: the three options, and three words
\* that are no options (the value of --feature, or an invalid argument), two
\* of them with a replacement pattern of String.prototype.replace.
ArgWords ==
    { DebugOption, NoCleanOption, FeatureOption,
      << "b", "e", "t", "a", "1" >>, << "$", "&" >>, << "a", "$", "'" >> }
Argvs == UNION { [1..n -> ArgWords] : n \in 0..MaxArgs }

validOptions == { DebugOption, NoCleanOption, FeatureOption }
expectValue == { FeatureOption }

\* a.replace(/^-+/, ''): the argument without its leading dashes.
RECURSIVE argName(_)
argName(a) == IF a # <<>> /\ Head(a) = "-" THEN argName(Tail(a)) ELSE a

\* const args = { debug: false, skipClean: false, feature: '' }
DefaultArgs == (DebugKey :> FALSE) @@ (SkipCleanKey :> FALSE) @@ (FeatureKey :> <<>>)

\* args[argName] = value: sets the key, adding it when args has no such key.
SetArg(args, key, value) == (key :> value) @@ args

\* The loop of parseArgs from givenArgs[i] on.
RECURSIVE ParseFrom(_, _, _)
ParseFrom(givenArgs, i, args) ==
    IF i > Len(givenArgs) THEN [threw |-> FALSE, args |-> args]
    ELSE LET a == givenArgs[i]
         IN IF a \notin validOptions THEN [threw |-> TRUE, args |-> args]
            ELSE IF a \in expectValue
            THEN IF i + 1 > Len(givenArgs) THEN [threw |-> TRUE, args |-> args]
                 ELSE ParseFrom(givenArgs, i + 2, SetArg(args, argName(a), givenArgs[i + 1]))
            ELSE ParseFrom(givenArgs, i + 1, SetArg(args, argName(a), TRUE))

parseArgs(givenArgs) == ParseFrom(givenArgs, 1, DefaultArgs)

\* A package.json: how its text is laid out ("handwritten", or "stringified"
\* by JSON.stringify(packageJson, undefined, '    ')), and the three fields the
\* script reads: name, version and scripts['vscode:prepublish'].
PackageJson(text, name, version, prepublish) ==
    [text |-> text, name |-> name, version |-> version, prepublish |-> prepublish]
NoJson == PackageJson("", "", <<>>, <<>>)
\* A file that does not exist: a json file, another file.
NoFile == PackageJson("<missing>", "", <<>>, <<>>)
Missing == << "<missing>" >>
PackageNames == { "amazon-q-vscode", "aws-toolkit-vscode" }
Snapshot == << "-", "S", "N", "A", "P", "S", "H", "O", "T" >>
Versions == { << "1", ".", "0", ".", "0" >> \o Snapshot, << "1", ".", "0", ".", "0" >> }
NpmRunClean == << "n", "p", "m", " ", "r", "u", "n", " ", "c", "l", "e", "a", "n" >>
SkippedClean ==
    << "e", "c", "h", "o", " ", "\"", "S", "k", "i", "p", "p", "e", "d", " ", "c", "l", "e", "a", "n", "\"" >>
Prepublish == NpmRunClean \o << " ", "&", "&", " ", "w", "e", "b", "p", "a", "c", "k" >>
MinimizeTrue == << "m", "i", "n", "i", "m", "i", "z", "e", ":", " ", "t", "r", "u", "e" >>
MinimizeFalse == << "m", "i", "n", "i", "m", "i", "z", "e", ":", " ", "f", "a", "l", "s", "e" >>

\* git tag -l --contains HEAD: a release tag, no release tag, or git fails.
GitAnswers == { "release", "prerelease", "fails" }

\* What git rev-parse --short=7 HEAD prints, when it does not fail: a commit
\* id and a newline, a newline only, or nothing.
RevParseOutputs == { << "a", "b", "c", "1", "2", "3", "4", "\n" >>, << "\n" >>, << >> }

\* What String.prototype.replace puts in for a replacement text when the
\* pattern has no capture groups: $$ is a '$', $& the matched text, $ with a
\* backtick the text before the match, $' the text after it, and all other
\* text stands for itself.
RECURSIVE Expand(_, _, _, _)
Expand(new, matched, before, after) ==
    IF new = <<>> THEN <<>>
    ELSE IF Len(new) > 1 /\ new[1] = "$" /\ new[2] \in { "$", "&", "\\u0060", "'" }
    THEN (CASE new[2] = "$" -> << "$" >>
            [] new[2] = "&" -> matched
            [] new[2] = "\\u0060" -> before
            [] new[2] = "'" -> after)
            \o Expand(SubSeq(new, 3, Len(new)), matched, before, after)
    ELSE << Head(new) >> \o Expand(Tail(new), matched, before, after)

\* String.prototype.replace(old, new): the first occurrence of old in str is
\* replaced by what new stands for there.
ReplaceFirst(str, old, new) ==
    LET at == IndexOf(str, old)
    IN IF at = -1 THEN str
       ELSE LET before == SubSeq(str, 1, at)
                after == SubSeq(str, at + Len(old) + 1, Len(str))
            IN before \o Expand(new, old, before, after) \o after

\* getVersionSuffix(feature, debug): '' for a release, else
\* `${debugSuffix}${featureSuffix}${commitSuffix}`; revParse is what
\* git rev-parse prints.
getVersionSuffix(git, feature, debug, revParse) ==
    IF git = "release" THEN <<>>
    ELSE LET debugSuffix == IF debug THEN << "-", "d", "e", "b", "u", "g" >> ELSE <<>>
             featureSuffix == IF feature = <<>> THEN <<>> ELSE << "-" >> \o feature
             commitId == Trim(revParse)
             commitSuffix == IF commitId # <<>> THEN << "-", "g" >> \o commitId ELSE <<>>
         IN debugSuffix \o featureSuffix \o commitSuffix

\* The block `if (!release || args.debug) { ... }` on the packageJson object.
RewritePackageJson(packageJson, args, git, beta, revParse) ==
    LET versionSuffix == getVersionSuffix(git, args[FeatureKey], args[DebugKey], revParse)
        versioned ==
            [packageJson EXCEPT !.version =
                IF beta THEN << "9", "9", ".", "0", ".", "0" >> \o versionSuffix
                ELSE ReplaceFirst(packageJson.version, Snapshot, versionSuffix)]
    IN IF args[SkipCleanKey]
       THEN [versioned EXCEPT !.prepublish =
                ReplaceFirst(versioned.prepublish, NpmRunClean, SkippedClean)]
       ELSE versioned

\* finally: copyFileSync(backupJsonFile, packageJsonFile); unlinkSync(backupJsonFile)
RestorePackageJson(disk) ==
    [disk EXCEPT !.packageJson = disk.backupJson, !.backupJson = NoFile]

\* The other subsystems do not move.
PkFrame == UNCHANGED <<chatVars, streamVars, owVars, msgVars, diffVars, wsVars, capVars>>

\* Before the script runs: a package.json, a webpack config (or none), and
\* no backup files or the backup files a run that was killed has left; git
\* and the beta config answer the same way all along.
PkStart(env, disk) ==
    /\ pkEnv = env
    /\ pkFiles = disk
    /\ pkPc = "notStarted"
    /\ pkArgv = <<>>
    /\ pkArgs = DefaultArgs
    /\ pkRelease = TRUE
    /\ pkJson = NoJson
    /\ pkThrew = "none"
    /\ pkBefore = disk.packageJson
    /\ pkRuns = 0

\* The package.json.package.bk of an earlier run: the package.json of then.
LeftBackupJson(name) ==
    PackageJson("handwritten", name, << "0", ".", "9", ".", "0" >> \o Snapshot, Prepublish)
LeftBackupWebpack == MinimizeTrue \o << ",", " ", "o", "l", "d" >>

PkInit ==
    \E git \in GitAnswers, beta \in BOOLEAN, name \in PackageNames, version \in Versions,
       webpack \in { MinimizeTrue, Missing }, leftJson \in BOOLEAN,
       leftWebpack \in BOOLEAN :
        PkStart([git |-> git, beta |-> beta],
                [packageJson |-> PackageJson("handwritten", name, version, Prepublish),
                 backupJson |-> IF leftJson THEN LeftBackupJson(name) ELSE NoFile,
                 webpackConfig |-> webpack,
                 backupWebpack |-> IF leftWebpack THEN LeftBackupWebpack ELSE Missing])

PkIdle ==
    PkStart([git |-> "prerelease", beta |-> FALSE],
            [packageJson |-> PackageJson("handwritten", "amazon-q-vscode",
                                         << "1", ".", "0", ".", "0" >> \o Snapshot,
                                         Prepublish),
             backupJson |-> NoFile,
             webpackConfig |-> MinimizeTrue,
             backupWebpack |-> Missing])

\* main() starts: parseArgs, and the check that package.json exists.
Main ==
    /\ PkFrame
    /\ pkPc \in { "notStarted", "resolved", "rejected" }
    /\ pkRuns < MaxRuns
    /\ pkRuns' = pkRuns + 1
    /\ \E argv \in Argvs :
          /\ pkArgv' = argv
          /\ IF parseArgs(argv).threw \/ pkFiles.packageJson = NoFile
             THEN /\ pkPc' = "rejected"
                  /\ pkArgs' = DefaultArgs
             ELSE /\ pkPc' = "isRelease"
                  /\ pkArgs' = parseArgs(argv).args
    /\ pkRelease' = TRUE
    /\ pkJson' = NoJson
    /\ pkThrew' = "none"
    /\ pkBefore' = pkFiles.packageJson
    /\ UNCHANGED <<pkEnv, pkFiles>>

\* release = isRelease(); a release that is a beta throws; preparePackager.
ReleaseCheck ==
    /\ PkFrame
    /\ pkPc = "isRelease"
    /\ IF pkEnv.git = "fails" \/ (pkEnv.git = "release" /\ pkEnv.beta)
       THEN /\ pkThrew' = "release check"
            /\ pkPc' = "finally"
            /\ pkRelease' = IF pkEnv.git = "fails" THEN pkRelease ELSE TRUE
       ELSE /\ pkRelease' = (pkEnv.git = "release")
            /\ pkPc' = "backup"
            /\ UNCHANGED pkThrew
    /\ UNCHANGED <<pkEnv, pkFiles, pkArgv, pkArgs, pkJson, pkBefore, pkRuns>>

\* copyFileSync(packageJsonFile, backupJsonFile); packageJson = JSON.parse(...)
Backup ==
    /\ PkFrame
    /\ pkPc = "backup"
    /\ pkFiles' = [pkFiles EXCEPT !.backupJson = pkFiles.packageJson]
    /\ pkJson' = pkFiles.packageJson
    /\ pkPc' = "rewrite"
    /\ UNCHANGED <<pkEnv, pkArgv, pkArgs, pkRelease, pkThrew, pkBefore, pkRuns>>

\* if (!release || args.debug) { version, vscode:prepublish, webpack config }
\* git rev-parse may fail, and the webpack config may be missing; the config
\* is written with webpackConfigJs.replace(/minimize: true/, 'minimize: false').
Rewrite ==
    /\ PkFrame
    /\ pkPc = "rewrite"
    /\ IF ~pkRelease \/ pkArgs[DebugKey]
       THEN \E revParseWorks \in BOOLEAN, revParse \in RevParseOutputs :
              IF ~pkRelease /\ ~revParseWorks
              THEN /\ pkThrew' = "version rewrite"
                   /\ pkPc' = "finally"
                   /\ UNCHANGED <<pkJson, pkFiles>>
              ELSE /\ pkJson' = RewritePackageJson(pkJson, pkArgs, pkEnv.git, pkEnv.beta,
                                                   revParse)
                   /\ IF pkArgs[DebugKey] /\ pkFiles.webpackConfig = Missing
                      THEN /\ pkThrew' = "version rewrite"
                           /\ pkPc' = "finally"
                           /\ UNCHANGED pkFiles
                      ELSE /\ pkFiles' =
                                IF pkArgs[DebugKey]
                                THEN [pkFiles EXCEPT
                                        !.backupWebpack = pkFiles.webpackConfig,
                                        !.webpackConfig =
                                            ReplaceFirst(pkFiles.webpackConfig,
                                                         MinimizeTrue, MinimizeFalse)]
                                ELSE pkFiles
                           /\ pkPc' = "write"
                           /\ UNCHANGED pkThrew
       ELSE /\ pkPc' = "write"
            /\ UNCHANGED <<pkJson, pkFiles, pkThrew>>
    /\ UNCHANGED <<pkEnv, pkArgv, pkArgs, pkRelease, pkBefore, pkRuns>>

\* writeFileSync(packageJsonFile, JSON.stringify(packageJson, undefined, '    '))
WritePackageJson ==
    /\ PkFrame
    /\ pkPc = "write"
    /\ pkFiles' = [pkFiles EXCEPT !.packageJson = [pkJson EXCEPT !.text = "stringified"]]
    /\ pkPc' = IF pkJson.name = "amazon-q-vscode" THEN "download" ELSE "vsce"
    /\ UNCHANGED <<pkEnv, pkArgv, pkArgs, pkRelease, pkJson, pkThrew, pkBefore, pkRuns>>

\* await downloadLanguageServer()
DownloadLanguageServer ==
    /\ PkFrame
    /\ pkPc = "download"
    /\ \E works \in BOOLEAN :
          IF works THEN pkPc' = "vsce" /\ UNCHANGED pkThrew
          ELSE pkPc' = "finally" /\ pkThrew' = "language-server download"
    /\ UNCHANGED <<pkEnv, pkFiles, pkArgv, pkArgs, pkRelease, pkJson, pkBefore, pkRuns>>

\* child_process.execFileSync('vsce', ['package', ...])
VscePackage ==
    /\ PkFrame
    /\ pkPc = "vsce"
    /\ \E works \in BOOLEAN :
          IF works THEN pkPc' = "rename" /\ UNCHANGED pkThrew
          ELSE pkPc' = "finally" /\ pkThrew' = "vsce package"
    /\ UNCHANGED <<pkEnv, pkFiles, pkArgv, pkArgs, pkRelease, pkJson, pkBefore, pkRuns>>

\* nodefs.renameSync(vsixName, `../../${vsixName}`)
RenameVsix ==
    /\ PkFrame
    /\ pkPc = "rename"
    /\ \E works \in BOOLEAN :
          /\ pkThrew' = IF works THEN "none" ELSE "rename"
          /\ pkPc' = "finally"
    /\ UNCHANGED <<pkEnv, pkFiles, pkArgv, pkArgs, pkRelease, pkJson, pkBefore, pkRuns>>

\* finally { restore package.json, and the webpack config for --debug }: a
\* copyFileSync from a backup that does not exist throws and ends main there.
Finally ==
    /\ PkFrame
    /\ pkPc = "finally"
    /\ IF pkFiles.backupJson = NoFile
       THEN /\ pkPc' = "rejected"
            /\ UNCHANGED pkFiles
       ELSE LET restored == RestorePackageJson(pkFiles)
            IN IF ~pkArgs[DebugKey]
               THEN /\ pkFiles' = restored
                    /\ pkPc' = IF pkThrew = "none" THEN "resolved" ELSE "rejected"
               ELSE IF restored.backupWebpack = Missing
               THEN /\ pkFiles' = restored
                    /\ pkPc' = "rejected"
               ELSE /\ pkFiles' = [restored EXCEPT
                                     !.webpackConfig = restored.backupWebpack,
                                     !.backupWebpack = Missing]
                    /\ pkPc' = IF pkThrew = "none" THEN "resolved" ELSE "rejected"
    /\ UNCHANGED <<pkEnv, pkArgv, pkArgs, pkRelease, pkJson, pkThrew, pkBefore, pkRuns>>

PkNext ==
    \/ Main
    \/ ReleaseCheck
    \/ Backup
    \/ Rewrite
    \/ WritePackageJson
    \/ DownloadLanguageServer
    \/ VscePackage
    \/ RenameVsix
    \/ Finally

(***************************************************************************)
(* executeCommandWithOutputCapture (packages/amazonq/src/lsp/client.ts):   *)
(* one command run in a terminal, its output captured through the shell    *)
(* integration stream or the clipboard, raced against a 60-second timer.   *)
(* A string is the sequence of its characters.                             *)
(***************************************************************************)
\* The characters U+001B (ESC) and U+0007 (BEL), each kept as one unit.
ESC == "<U+001B>"
BEL == "<U+0007>"

\* The character U+0003 (Ctrl+C), kept as one unit.
ETX == "<U+0003>"

\* The line pushed for a silent command, kept as one unit: it holds none of
\* the words or separators that are searched for.
SilentMarker == << "[Command is running but producing no output]" >>

\* params.command
Command == << "c", "m", "d" >>

\* What a chunk of the stream is once processFirstChunk / stripAnsi have run.
DataPool ==
    { << "o", "k" >>,
      << "E", "r", "r", "o", "r" >>,
      << "o", "k", "\n", " " >>,
      << >>,
      << "^", "C" >> }

\* What getLatestTerminalOutput resolves with: '' or the trimmed terminal contents.
TerminalPool ==
    { << >>,
      << "o", "k" >>,
      << "c", "m", "d", "\n", "F", "A", "I", "L", "E", "D" >>,
      << "o", "k", "\n", "\n", "\n", "o", "k" >>,
      << "a", "\r", "\n", "b" >>,
      << ESC, "[", "3", "2", "m", "o", "k", " ", ESC, "[", "0", "m" >>,
      << ESC, "]", "6", "3", "3", ";", "C", BEL, "o", "k", "\r", "b" >> }

\* String.prototype.split('\n')
RECURSIVE SplitLinesFrom(_, _, _)
SplitLinesFrom(str, i, current) ==
    IF i > Len(str) THEN << current >>
    ELSE IF str[i] = "\n" THEN << current >> \o SplitLinesFrom(str, i + 1, <<>>)
    ELSE SplitLinesFrom(str, i + 1, Append(current, str[i]))
SplitLines(str) == SplitLinesFrom(str, 1, <<>>)

\* Array.prototype.join('\n')
RECURSIVE JoinLines(_)
JoinLines(lines) ==
    IF lines = <<>> THEN <<>>
    ELSE IF Len(lines) = 1 THEN lines[1]
    ELSE lines[1] \o << "\n" >> \o JoinLines(Tail(lines))

\* String.prototype.toLowerCase, on the letters the model uses.
LowerOf(c) ==
    CASE c = "E" -> "e" [] c = "F" -> "f" [] c = "A" -> "a" [] c = "I" -> "i"
      [] c = "L" -> "l" [] c = "D" -> "d" [] c = "C" -> "c" [] OTHER -> c
toLowerCase(str) == [i \in 1..Len(str) |-> LowerOf(str[i])]

\* String.prototype.includes
includes(str, word) == IndexOf(str, word) # -1

\* lines.filter((line) => line.trim())
NonBlank(lines) == SelectSeq(lines, LAMBDA line : Trim(line) # <<>>)

\* The loop body after the chunk was processed: true when Ctrl+C is detected.
CtrlC(data) == includes(data, << "^", "C" >>) \/ includes(data, << ETX >>)

\* if (data && data.trim()) outputLines.push(...lines.filter(...))
PushData(lines, data) ==
    IF data # <<>> /\ Trim(data) # <<>> THEN lines \o NonBlank(SplitLines(data)) ELSE lines

\* The end of a run of characters of the set that starts at index j.
RECURSIVE RunEnd(_, _, _)
RunEnd(str, j, set) ==
    IF j <= Len(str) /\ str[j] \in set THEN RunEnd(str, j + 1, set) ELSE j

\* The index of the first BEL at or after j; 0: none.
RECURSIVE NextBel(_, _)
NextBel(str, j) ==
    IF j > Len(str) THEN 0 ELSE IF str[j] = BEL THEN j ELSE NextBel(str, j + 1)

\* str has the characters of word from index i on.
StartsAt(str, i, word) ==
    i + Len(word) - 1 <= Len(str) /\ SubSeq(str, i, i + Len(word) - 1) = word

UpperCase ==
    { "A", "B", "C", "D", "E", "F", "G", "H", "I", "J", "K", "L", "M",
      "N", "O", "P", "Q", "R", "S", "T", "U", "V", "W", "X", "Y", "Z" }

\* replace(new RegExp(escapeChar + '\\[[0-9;]*m', 'g'), '')
RECURSIVE RemoveAnsi(_, _)
RemoveAnsi(str, i) ==
    IF i > Len(str) THEN <<>>
    ELSE LET j == RunEnd(str, i + 2, { "0", "1", "2", "3", "4", "5", "6", "7", "8", "9", ";" })
         IN IF StartsAt(str, i, << ESC, "[" >>) /\ j <= Len(str) /\ str[j] = "m"
            THEN RemoveAnsi(str, j + 1)
            ELSE << str[i] >> \o RemoveAnsi(str, i + 1)

\* replace(new RegExp(escapeChar + ']633;[A-Z];[^' + bellChar + ']*' + bellChar, 'g'), '')
RECURSIVE RemoveSequencesWithData(_, _)
RemoveSequencesWithData(str, i) ==
    IF i > Len(str) THEN <<>>
    ELSE IF /\ StartsAt(str, i, << ESC, "]", "6", "3", "3", ";" >>)
            /\ i + 7 <= Len(str)
            /\ str[i + 6] \in UpperCase
            /\ str[i + 7] = ";"
            /\ NextBel(str, i + 8) # 0
    THEN RemoveSequencesWithData(str, NextBel(str, i + 8) + 1)
    ELSE << str[i] >> \o RemoveSequencesWithData(str, i + 1)

\* replace(new RegExp(escapeChar + ']633;[A-Z]' + bellChar, 'g'), '')
RECURSIVE RemoveSequences(_, _)
RemoveSequences(str, i) ==
    IF i > Len(str) THEN <<>>
    ELSE IF /\ StartsAt(str, i, << ESC, "]", "6", "3", "3", ";" >>)
            /\ i + 7 <= Len(str)
            /\ str[i + 6] \in UpperCase
            /\ str[i + 7] = BEL
    THEN RemoveSequences(str, i + 8)
    ELSE << str[i] >> \o RemoveSequences(str, i + 1)

\* replace(/\r\n/g, '\n').replace(/\r/g, '\n')
RECURSIVE NormalizeLineEndings(_, _)
NormalizeLineEndings(str, i) ==
    IF i > Len(str) THEN <<>>
    ELSE IF StartsAt(str, i, << "\r", "\n" >>)
    THEN << "\n" >> \o NormalizeLineEndings(str, i + 2)
    ELSE IF str[i] = "\r" THEN << "\n" >> \o NormalizeLineEndings(str, i + 1)
    ELSE << str[i] >> \o NormalizeLineEndings(str, i + 1)

\* replace(/\n{3,}/g, '\n\n')
RECURSIVE CollapseNewlines(_, _)
CollapseNewlines(str, i) ==
    IF i > Len(str) THEN <<>>
    ELSE LET j == RunEnd(str, i, { "\n" })
         IN IF j - i >= 3 THEN << "\n", "\n" >> \o CollapseNewlines(str, j)
            ELSE << str[i] >> \o CollapseNewlines(str, i + 1)

\* cleanTerminalOutput
cleanTerminalOutput(output) ==
    IF output = <<>> THEN <<>>
    ELSE Trim(CollapseNewlines(
             NormalizeLineEndings(
                 RemoveSequences(RemoveSequencesWithData(RemoveAnsi(output, 1), 1), 1), 1), 1))

\* The clipboard path: stdout.indexOf(params.command), substring(outputStart).trim()
StripEcho(out) ==
    LET commandIndex == IndexOf(out, Command)
    IN IF commandIndex # -1
       THEN Trim(SubSeq(out, commandIndex + Len(Command) + 1, Len(out)))
       ELSE out

\* The value the 60-second timer resolves with.
TimedOutResult(lines) ==
    [exitCode |-> 124,
     stdout |-> JoinLines(lines),
     success |-> FALSE,
     message |-> "Command execution timed out"]

\* The value a completed command resolves with.
CompletedResult(out, shell) ==
    LET success == /\ ~includes(toLowerCase(out), << "e", "r", "r", "o", "r" >>)
                   /\ ~includes(toLowerCase(out), << "f", "a", "i", "l", "e", "d" >>)
    IN [exitCode |-> IF success THEN 0 ELSE 1,
        stdout |-> out,
        success |-> success,
        message |-> IF ~success THEN "Command may have failed (inferred from output)"
                    ELSE IF shell THEN "Command executed successfully via shell integration"
                    ELSE "Command executed successfully via clipboard fallback"]

\* The value the outer catch resolves with.
FailedResult(out) ==
    [exitCode |-> 1,
     stdout |-> out,
     success |-> FALSE,
     message |-> "Failed to execute command"]

\* if (!isCompleted): the guard of every resolve.
CanResolveAlways(done) == TRUE
CanResolve(done) == ~done

\* clearTimeout: a timer that is armed never fires; any other is left as it is.
ClearTimeout(timer) == IF timer = "armed" THEN "cleared" ELSE timer

\* resolve(value): the first call settles the promise.
Resolve(value) ==
    /\ resolveCalls' = Append(resolveCalls, value)
    /\ capPromise' = IF capPromise = "pending" THEN "fulfilled" ELSE capPromise

\* The other subsystems do not move.
CapFrame == UNCHANGED <<chatVars, streamVars, owVars, msgVars, diffVars, wsVars, pkVars>>

\* Before the request handler calls the function.
CapIdle ==
    /\ capPc = "notStarted"
    /\ hasShellIntegration = FALSE
    /\ isCompleted = FALSE
    /\ outputLines = <<>>
    /\ stdout = <<>>
    /\ receivedFirstChunk = FALSE
    /\ cmdTimeout = "none"
    /\ firstChunkTimeout = "none"
    /\ resolveCalls = <<>>
    /\ capPromise = "pending"

\* if (!isCompleted) { isCompleted = true; clearTimeout(timeout); resolve(...) }
\* after the output is known; the executor ends.
Finish(out, timer) ==
    /\ capPc' = "ended"
    /\ stdout' = out
    /\ IF CanResolve(isCompleted)
       THEN /\ isCompleted' = TRUE
            /\ cmdTimeout' = ClearTimeout(timer)
            /\ Resolve(CompletedResult(out, hasShellIntegration))
       ELSE /\ cmdTimeout' = timer
            /\ UNCHANGED <<isCompleted, resolveCalls, capPromise>>

\* catch (error) { if (!isCompleted) { ...; resolve({ exitCode: 1, ... }) } }
Catch(out, timer) ==
    /\ capPc' = "ended"
    /\ stdout' = out
    /\ IF CanResolve(isCompleted)
       THEN /\ isCompleted' = TRUE
            /\ cmdTimeout' = ClearTimeout(timer)
            /\ Resolve(FailedResult(out))
       ELSE /\ cmdTimeout' = timer
            /\ UNCHANGED <<isCompleted, resolveCalls, capPromise>>

\* The clipboard path up to its first await: terminal.sendText (which may
\* throw), then the 3-second wait.
StartFallback(sendThrows, timer) ==
    IF sendThrows
    THEN Catch(stdout, timer)
    ELSE /\ capPc' = "wait"
         /\ cmdTimeout' = timer
         /\ UNCHANGED <<stdout, isCompleted, resolveCalls, capPromise>>

\* The end of the shell integration path: stdout = outputLines.join('\n'),
\* then the clipboard path if stdout is empty, the completion otherwise.
AfterShell(lines, sendThrows) ==
    IF JoinLines(lines) = <<>>
    THEN StartFallback(sendThrows, cmdTimeout)
    ELSE Finish(JoinLines(lines), cmdTimeout)

\* The executor up to its first await: the 60-second timer is set; finding,
\* creating or showing the terminal may throw; with shell integration
\* executeCommand / read may throw (the inner catch falls through to the
\* clipboard path), else the 5-second timer is set and the stream is read.
ExecuteCommand(shell, outcome, sendThrows) ==
    /\ CapFrame
    /\ capPc = "notStarted"
    /\ UNCHANGED <<outputLines, receivedFirstChunk>>
    /\ IF outcome = "terminalThrows"
       THEN /\ Catch(stdout, "armed")
            /\ UNCHANGED <<hasShellIntegration, firstChunkTimeout>>
       ELSE /\ hasShellIntegration' = shell
            /\ IF shell /\ outcome = "ok"
               THEN /\ capPc' = "stream"
                    /\ cmdTimeout' = "armed"
                    /\ firstChunkTimeout' = "armed"
                    /\ UNCHANGED <<stdout, isCompleted, resolveCalls, capPromise>>
               ELSE /\ StartFallback(sendThrows, "armed")
                    /\ UNCHANGED firstChunkTimeout

\* One iteration of for await (let data of stream).  On Ctrl+C the loop is
\* left with break: a stream iterator with a return() method has it called
\* and awaited before the code after the loop runs, one without it goes on
\* in the same turn.
ShellStreamChunk(data, hasReturn, sendThrows) ==
    /\ CapFrame
    /\ capPc = "stream"
    /\ Len(outputLines) < MaxOutputLines
    /\ receivedFirstChunk' = TRUE
    /\ firstChunkTimeout' = IF receivedFirstChunk THEN firstChunkTimeout
                            ELSE ClearTimeout(firstChunkTimeout)
    /\ UNCHANGED hasShellIntegration
    /\ IF CtrlC(data) /\ hasReturn
       THEN /\ capPc' = "break"
            /\ UNCHANGED <<outputLines, stdout, isCompleted, cmdTimeout, resolveCalls,
                           capPromise>>
       ELSE IF CtrlC(data)
       THEN /\ UNCHANGED outputLines
            /\ AfterShell(outputLines, sendThrows)
       ELSE /\ outputLines' = PushData(outputLines, data)
            /\ UNCHANGED <<capPc, stdout, isCompleted, cmdTimeout, resolveCalls, capPromise>>

\* The return() of the stream iterator settles after a break: the code
\* after the loop runs (a chunk has been received); a rejection goes to
\* catch (shellError).
BreakSettled(rejects, sendThrows) ==
    /\ CapFrame
    /\ capPc = "break"
    /\ UNCHANGED <<hasShellIntegration, outputLines, receivedFirstChunk, firstChunkTimeout>>
    /\ IF rejects
       THEN StartFallback(sendThrows, cmdTimeout)
       ELSE AfterShell(outputLines, sendThrows)

\* The stream ends: with no chunk received the 5-second timer is cleared and
\* getLatestTerminalOutput awaited; otherwise the shell path ends.
ShellStreamEnd(sendThrows) ==
    /\ CapFrame
    /\ capPc = "stream"
    /\ UNCHANGED <<hasShellIntegration, outputLines, receivedFirstChunk>>
    /\ IF ~receivedFirstChunk
       THEN /\ firstChunkTimeout' = ClearTimeout(firstChunkTimeout)
            /\ capPc' = "silent"
            /\ UNCHANGED <<stdout, isCompleted, cmdTimeout, resolveCalls, capPromise>>
       ELSE /\ UNCHANGED firstChunkTimeout
            /\ AfterShell(outputLines, sendThrows)

\* The stream throws: catch (shellError) falls through to the clipboard
\* path, stdout being still empty.
ShellStreamThrows(sendThrows) ==
    /\ CapFrame
    /\ capPc = "stream"
    /\ UNCHANGED <<hasShellIntegration, outputLines, receivedFirstChunk, firstChunkTimeout>>
    /\ StartFallback(sendThrows, cmdTimeout)

\* getLatestTerminalOutput settles for a silent command: its output is
\* pushed if not empty; a rejection goes to catch (shellError).
SilentOutput(fallbackOutput, rejects, sendThrows) ==
    /\ CapFrame
    /\ capPc = "silent"
    /\ UNCHANGED <<hasShellIntegration, receivedFirstChunk, firstChunkTimeout>>
    /\ IF rejects
       THEN /\ UNCHANGED outputLines
            /\ StartFallback(sendThrows, cmdTimeout)
       ELSE LET lines == IF fallbackOutput # <<>> THEN Append(outputLines, fallbackOutput)
                         ELSE outputLines
            IN /\ outputLines' = lines
               /\ AfterShell(lines, sendThrows)

\* The 3-second wait of the clipboard path is over: getLatestTerminalOutput
\* is called.
WaitOver ==
    /\ CapFrame
    /\ capPc = "wait"
    /\ capPc' = "read"
    /\ UNCHANGED <<hasShellIntegration, isCompleted, outputLines, stdout, receivedFirstChunk,
                   cmdTimeout, firstChunkTimeout, resolveCalls, capPromise>>

\* getLatestTerminalOutput settles on the clipboard path: the output is
\* cleaned, the command echo removed, and the command completes; a rejection
\* goes to the outer catch.
ClipboardOutput(output, rejects) ==
    /\ CapFrame
    /\ capPc = "read"
    /\ UNCHANGED <<hasShellIntegration, outputLines, receivedFirstChunk, firstChunkTimeout>>
    /\ IF rejects
       THEN Catch(stdout, cmdTimeout)
       ELSE Finish(StripEcho(cleanTerminalOutput(output)), cmdTimeout)

\* The 5-second timer fires: a line is pushed if no chunk has come.
FirstChunkTimeoutFires ==
    /\ CapFrame
    /\ firstChunkTimeout = "armed"
    /\ firstChunkTimeout' = "fired"
    /\ outputLines' = IF ~receivedFirstChunk THEN Append(outputLines, SilentMarker)
                      ELSE outputLines
    /\ UNCHANGED <<capPc, hasShellIntegration, isCompleted, stdout, receivedFirstChunk,
                   cmdTimeout, resolveCalls, capPromise>>

\* The 60-second timer fires (the 5-second one, set in the same turn, is no
\* longer pending then): if (!isCompleted) resolve({ exitCode: 124, ... }).
TimeoutFires ==
    /\ CapFrame
    /\ cmdTimeout = "armed"
    /\ firstChunkTimeout # "armed"
    /\ cmdTimeout' = "fired"
    /\ IF CanResolve(isCompleted)
       THEN /\ isCompleted' = TRUE
            /\ Resolve(TimedOutResult(outputLines))
       ELSE UNCHANGED <<isCompleted, resolveCalls, capPromise>>
    /\ UNCHANGED <<capPc, hasShellIntegration, outputLines, stdout, receivedFirstChunk,
                   firstChunkTimeout>>

CapNext ==
    \/ \E shell \in BOOLEAN, outcome \in { "ok", "shellThrows", "terminalThrows" },
          sendThrows \in BOOLEAN : ExecuteCommand(shell, outcome, sendThrows)
    \/ \E data \in DataPool, hasReturn \in BOOLEAN, sendThrows \in BOOLEAN :
          ShellStreamChunk(data, hasReturn, sendThrows)
    \/ \E rejects \in BOOLEAN, sendThrows \in BOOLEAN : BreakSettled(rejects, sendThrows)
    \/ \E sendThrows \in BOOLEAN : ShellStreamEnd(sendThrows)
    \/ \E sendThrows \in BOOLEAN : ShellStreamThrows(sendThrows)
    \/ \E fallbackOutput \in TerminalPool, rejects \in BOOLEAN, sendThrows \in BOOLEAN :
          SilentOutput(fallbackOutput, rejects, sendThrows)
    \/ WaitOver
    \/ \E output \in TerminalPool, rejects \in BOOLEAN : ClipboardOutput(output, rejects)
    \/ FirstChunkTimeoutFires
    \/ TimeoutFires

\* ==== next subsystem ====
(***************************************************************************)
(* Specifications: one per subsystem, the others stay as constructed.      *)
(***************************************************************************)
InitChat == ChatInit /\ StreamIdle /\ OwIdle /\ MsgIdle /\ DiffIdle /\ WsIdle /\ PkIdle /\ CapIdle
SpecChat == InitChat /\ [][ChatNext]_vars

InitStream == ChatIdle /\ StreamIdle /\ OwIdle /\ MsgIdle /\ DiffIdle /\ WsIdle /\ PkIdle /\ CapIdle
SpecStream == InitStream /\ [][StreamNext]_vars

\* What the runtime and the service guarantee: initialize() settles, the
\* callback of a request is called, a response stream ends or fails, and a
\* call whose promise has settled runs on.
FairStream ==
    \A call \in Calls :
        /\ WF_vars(ClientCreated(call) \/ InitializeFails(call))
        /\ WF_vars(InitializeDone(call))
        /\ WF_vars(Callback(call))
        /\ WF_vars(StreamEnd(call) \/ StreamError(call))
        /\ WF_vars(FinishPrompt(call))
SpecStreamFair == InitStream /\ [][StreamNext]_vars /\ FairStream

InitOverwrite == ChatIdle /\ StreamIdle /\ OwInit /\ MsgIdle /\ DiffIdle /\ WsIdle /\ PkIdle /\ CapIdle
SpecOverwrite == InitOverwrite /\ [][OwNext]_vars

InitMessages == ChatIdle /\ StreamIdle /\ OwIdle /\ MsgIdle /\ DiffIdle /\ WsIdle /\ PkIdle /\ CapIdle
SpecMessages == InitMessages /\ [][MsgNext]_vars

InitDiff == ChatIdle /\ StreamIdle /\ OwIdle /\ MsgIdle /\ DiffInit /\ WsIdle /\ PkIdle /\ CapIdle
SpecDiff == InitDiff /\ [][DiffNext]_vars

InitPrefixes == ChatIdle /\ StreamIdle /\ OwIdle /\ MsgIdle /\ DiffIdle /\ WsInit /\ PkIdle /\ CapIdle
SpecPrefixes == InitPrefixes /\ [][WsNext]_vars

InitPackage == ChatIdle /\ StreamIdle /\ OwIdle /\ MsgIdle /\ DiffIdle /\ WsIdle /\ PkInit /\ CapIdle
SpecPackage == InitPackage /\ [][PkNext]_vars

\* The timers of executeCommandWithOutputCapture fire when they are due; the
\* command itself may take any time, or never end.
InitCapture == ChatIdle /\ StreamIdle /\ OwIdle /\ MsgIdle /\ DiffIdle /\ WsIdle /\ PkIdle /\ CapIdle
FairCapture == WF_vars(FirstChunkTimeoutFires) /\ WF_vars(TimeoutFires)
SpecCapture == InitCapture /\ [][CapNext]_vars /\ FairCapture

(***************************************************************************)
(* Claims about ChatSession.fixHistory (checked under SpecChat)            *)
(***************************************************************************)
LastMessage(history) == history[Len(history)]

\* C1: after fixHistory has run, the history holds at most
\* MAX_CONVERSATION_STATE_HISTORY_LEN = 100 messages, and what is left of a
\* longer history is its newest part (the oldest messages were dropped).
C1_HistoryBounded ==
    fixOutcome # "none" =>
        /\ Len(chatHistory) <= 100
        /\ \E first \in 1..(Len(historyBefore) + 1) :
              \E last \in {Len(historyBefore) - 1, Len(historyBefore)} :
                  chatHistory = SubSeq(historyBefore, first, last)

\* C2: after fixHistory(nextMessage), when the last history message is an
\* assistant message with tool uses and nextMessage was set without tool
\* results, nextMessage carries one tool result per tool use, with the same
\* toolUseId and status 'error'.
C2_CancelledToolResults ==
    ( /\ fixOutcome = "returned"
      /\ Len(chatHistory) > 0
      /\ LastMessage(chatHistory).role = "assistant"
      /\ LastMessage(chatHistory).tuDefined
      /\ Len(LastMessage(chatHistory).toolUses) > 0
      /\ nextIn.set
      /\ ~(nextIn.ctx /\ nextIn.trDefined /\ Len(nextIn.toolResults) > 0) )
    => /\ nextMessage.ctx
       /\ nextMessage.trDefined
       /\ Len(nextMessage.toolResults) = Len(LastMessage(chatHistory).toolUses)
       /\ \A i \in 1..Len(nextMessage.toolResults) :
             /\ nextMessage.toolResults[i].toolUseId = LastMessage(chatHistory).toolUses[i]
             /\ nextMessage.toolResults[i].status = "error"

\* C3: after fixHistory has run, a non-empty history starts with a message
\* from the user that carries no tool results.
C3_StartsWithUser ==
    (fixOutcome = "returned" /\ Len(chatHistory) > 0)
    => /\ chatHistory[1].role = "user"
       /\ (~chatHistory[1].trDefined \/ Len(chatHistory[1].toolResults) = 0)

\* C4: after fixHistory has run, a non-empty history ends with a message
\* from the assistant (a user message at the end was dropped).
C4_EndsWithAssistant ==
    (fixOutcome = "returned" /\ Len(chatHistory) > 0)
    => LastMessage(chatHistory).role = "assistant"

(***************************************************************************)
(* Claims about QCliStreamingHandler (checked under SpecStream)            *)
(***************************************************************************)
\* The call has started its request and has not finished.
Streaming(call) == pc[call] = "streaming" /\ reqClient[call] # 0

\* C5: cancelStreaming triggers the abort signal given to every request that
\* has started and not finished, whatever the interleaving of the
\* processUserPrompt calls; with nothing streaming it does nothing.
C5_CancelAbortsStreaming ==
    [][ lastOp'.op = "cancelStreaming" =>
          /\ \A call \in Calls : Streaming(call) => reqSignal[call] \in aborted'
          /\ (\A call \in Calls : pc[call] # "streaming") => aborted' = aborted ]_vars

\* C6: a chunk with content produces one 'answer-stream' update for the tab,
\* whose text is all chunk contents of that response so far in arrival order;
\* the end of the stream produces one 'answer' update with the full text;
\* both carry the message id generated for that prompt.
C6_OneUpdatePerChunk ==
    /\ lastOp.op = "chunk" =>
          sent = << ShortSummary(received[lastOp.call], "answer-stream",
                                 tabOf[lastOp.call], lastOp.call) >>
    /\ lastOp.op = "end" =>
          SelectSeq(sent, LAMBDA m : m.fn = "sendShortSummary")
              = << ShortSummary(received[lastOp.call], "answer",
                                tabOf[lastOp.call], lastOp.call) >>

(***************************************************************************)
(* Claims about the message helpers                                        *)
(***************************************************************************)
\* C7 (SpecOverwrite): handleOverwriteConflict returns true only when the
\* path did not exist or the user confirmed the overwrite; when the path
\* exists and the user does not confirm, it throws "Folder already exists"
\* and does not delete the location.
C7_OverwriteNeedsConfirmation ==
    /\ owResult = "true" => (~owExisted \/ owDialog = "confirmed")
    /\ (owPc \in {"returned", "threw"} /\ owExisted /\ owDialog # "confirmed")
          => /\ owResult = "ToolkitError: Folder already exists"
             /\ ~owDeleteCalled
             /\ owLocation \in fsPaths

\* The messages (a Timeout with its progress notification) started for a
\* msgId and not completed.
Uncompleted(msgId) ==
    { t \in 1..timeoutsMade : timeoutMsg[t] = msgId /\ t \notin completed }

\* C8 (SpecMessages): for each msgId at most one uncompleted message exists
\* at a time, also with several putMessage calls for it in flight.
C8_OneUncompletedMessage ==
    \A msgId \in MsgIds : Cardinality(Uncompleted(msgId)) <= 1


\* Claim C9: each diff view works on its own. A save in an open diff tab is
\* taken by that view's save listener, and a copy that ends well has put the
\* saved content in that view's original file; closing a view's tab disposes
\* both its listeners and has both its temp files deleted or being deleted;
\* and a view whose tab is still open keeps both its listeners, whatever
\* happens to the other views, also when their files share a base name.
C9_DiffViewsIndependent ==
    /\ diffOp.op = "save" => copies[diffOp.tab] # <<>>
    /\ diffOp.op = "copied" => files[views[diffOp.tab].originalFilePath] = diffOp.content
    /\ (diffOp.op = "close" /\ views[diffOp.tab].editable) =>
          /\ views[diffOp.tab].saveDisposed /\ views[diffOp.tab].tabDisposed
          /\ \A path \in { views[diffOp.tab].modifiedTempFilePath,
                            views[diffOp.tab].originalTempFilePath } :
                 files[path] = Absent \/ deleting[path] > 0
    /\ \A k \in openTabs :
          views[k].editable => ~views[k].saveDisposed /\ ~views[k].tabDisposed

\* s is t or the beginning of t.
IsPrefix(s, t) ==
    /\ Len(s) <= Len(t)
    /\ \A i \in 1..Len(s) : s[i] = t[i]

\* Claim C10: a viewDiff call whose message has a file path and a file text
\* makes these calls in this order and no other: one read of the file, one
\* mkdir of the temp directory, the write of the original temp file with the
\* file text, the write of the modified temp file with the content read, one
\* vscode.diff on the two temp files titled by the file's base name and the
\* Amazon Q suffix, and then the registration of the save listener and of one
\* tab listener; a call that returns has made all of them. The scheme
\* argument has no part in it.
C10_ViewDiffCalls ==
    (vdMethod = "viewDiff" /\ HasPathAndText(vdMsg)) =>
        LET file == vdMsg.filePath
            left == FilePath("/tmp/amazonq-diff",
                             file.name \o <<"_original_", vdTimestamp>>, file.ext)
            right == FilePath("/tmp/amazonq-diff",
                              file.name \o <<"_modified_", vdTimestamp>>, file.ext)
            expected ==
                << ReadFileText(file),
                   Mkdir,
                   WriteFile(left, vdMsg.fileText),
                   WriteFile(right, vdModified),
                   ExecuteDiff(left, right, <<<<file.name, file.ext>>, amazonQTabSuffix>>),
                   OnDidSaveTextDocument,
                   OnDidChangeTabs >>
        IN /\ IsPrefix(vdLog, expected)
           /\ vdPc = "returned" => vdLog = expected
           /\ vdPc \in {"writeOriginal", "writeModified", "diff", "returned"}
                  => vdModified # Absent

\* A viewDiff call with a custom scheme has returned after opening the diff.
C10_Witness ==
    /\ vdMethod = "viewDiff"
    /\ vdPc = "returned"
    /\ HasPathAndText(vdMsg)
    /\ vdScheme = "custom-scheme"
    /\ Len(vdLog) = 7
    /\ vdLog[5].api = "vscode.diff"

\* Claim C11: a viewDiff call whose message has no context, no file path (it
\* is undefined or empty) or no file text makes no call at all: no read, no
\* mkdir, no write, no command, no listener; and it returns without error.
C11_ViewDiffNoOp ==
    (vdMethod = "viewDiff" /\ (~vdMsg.context \/ vdMsg.hasPath # "set" \/ ~vdMsg.hasText)) =>
        /\ vdLog = <<>>
        /\ vdPc = "returned"

\* A viewDiff call for a file path without file text has returned.
C11_Witness ==
    /\ vdMethod = "viewDiff"
    /\ vdPc = "returned"
    /\ vdCalls > 0
    /\ vdMsg.context
    /\ vdMsg.hasPath = "set"
    /\ ~vdMsg.hasText
    /\ diffOp.op = "viewDiff"

\* Claim C12: for two or more workspace folders, getWorkspaceFoldersByPrefixes
\* throws or returns a mapping in which every given folder is the value of
\* exactly one prefix, every value is a given folder and no prefix has two
\* values; for no folder or one folder it returns undefined.
C12_OnePrefixPerFolder ==
    wsResult.kind # "none" =>
        IF Len(wsFolders) <= 1
        THEN wsResult.kind = "undefined"
        ELSE \/ wsResult.kind = "threw"
             \/ /\ wsResult.kind = "mapping"
                /\ \A i \in 1..Len(wsFolders) :
                      Cardinality({ entry \in wsResult.mapping : entry[2] = wsFolders[i] }) = 1
                /\ Cardinality(wsResult.mapping) = Len(wsFolders)
                /\ \A e1, e2 \in wsResult.mapping : e1[1] = e2[1] => e1 = e2

\* Twelve folders were mapped: the one named like the tenth made-up prefix
\* under its name, and the eleven that share a prefix under made-up numbered
\* prefixes that skip the number ten.
C12_Witness ==
    /\ wsResult.kind = "mapping"
    /\ wsFolders = << TenthNamed >> \o AlikeFolders
    /\ << TenthNamed.name, TenthNamed >> \in wsResult.mapping
    /\ \E entry \in wsResult.mapping :
          /\ entry[1] = <<"p", "_", "_", "_", "x", "_", "x", "_", "1", "2">>
          /\ entry[2] = AlikeFolders[Len(AlikeFolders)]

\* Claim C13: a putMessage call for a msgId whose stored message is not
\* completed creates no Timeout, reports the given progress entry on the
\* stored message's progress and returns the stored message's timeout at
\* once; a call for a msgId with no stored message, or with a completed one,
\* creates one new Timeout for that msgId, and when it returns it returns
\* that Timeout.
C13_PutMessageResult ==
    [][\A call \in PutCalls :
          /\ (putPc[call] = "idle" /\ putPc'[call] # "idle") =>
                LET msgId == putMsg'[call]
                    entry == putEntry'[call]
                    old == messageMap[msgId]
                IN IF old # 0 /\ old \notin completed
                   THEN /\ timeoutsMade' = timeoutsMade
                        /\ putPc'[call] = "returned"
                        /\ putResult'[call] = old
                        /\ reported' = IF entry = "none" THEN reported
                                       ELSE [reported EXCEPT ![old] = Append(@, entry)]
                   ELSE /\ timeoutsMade' = timeoutsMade + 1
                        /\ timeoutMsg'[timeoutsMade'] = msgId
                        /\ putTimeout'[call] = timeoutsMade'
                        /\ putPc'[call] = "starting"
          /\ (putPc[call] \in { "starting", "showing", "resolved", "stored" }
                /\ putPc'[call] = "returned") =>
                /\ putResult'[call] = putTimeout[call]
                /\ timeoutsMade' = timeoutsMade
       ]_vars

\* Claim C14: when main() of the packaging script has ended, resolved or
\* rejected, whatever step failed, package.json has exactly the content it
\* had when the run started and the backup file package.json.package.bk does
\* not exist.
C14_PackageJsonRestored ==
    pkPc \in { "resolved", "rejected" } =>
        /\ pkFiles.packageJson = pkBefore
        /\ pkFiles.backupJson = NoFile

\* The option --no-clean stands on the command line (not as the value of
\* --feature).
NoCleanGiven ==
    \E i \in 1..Len(pkArgv) :
        pkArgv[i] = NoCleanOption /\ (i = 1 \/ pkArgv[i - 1] # FeatureOption)

\* Claim C15: in a run started with --no-clean for a non-release or debug
\* build, the package.json written for packaging has no `npm run clean` in
\* its vscode:prepublish script.
C15_NoCleanSkipsClean ==
    (pkPc \in { "download", "vsce", "rename" } /\ NoCleanGiven
        /\ (~pkRelease \/ pkArgs[DebugKey])) =>
        IndexOf(pkFiles.packageJson.prepublish, NpmRunClean) = -1

\* Claim C16: every processUserPrompt call that has disabled the chat input
\* of its tab terminates, and when it does, the last messenger call it made
\* is the one that enables the chat input of the tab, isStreaming is false
\* and no abort controller is kept.
C16_PromptReenablesInput ==
    \A call \in Calls :
        (pc[call] = "streaming") ~>
            (/\ pc[call] = "done"
             /\ lastOp = [op |-> "finish", call |-> call]
             /\ sent # <<>>
             /\ sent[Len(sent)] = ChatInputEnabled(tabOf[call], TRUE)
             /\ ~isStreaming[handlerOf[call]]
             /\ abortController[handlerOf[call]] = 0)

\* Claim C17: executeCommandWithOutputCapture never rejects and delivers
\* exactly one result.  At every moment resolve has been called at most once
\* and the promise is not rejected; once the 60-second timer has fired, the
\* one result is the timed-out one (exit code 124, success false), and it
\* stays the only one when the command ends later; once the command has
\* completed or failed first, the timer is cleared, never fires, and the one
\* result is not the timed-out one.  A call that has started leads to a
\* delivered result.
C17_Safety ==
    /\ capPromise # "rejected"
    /\ Len(resolveCalls) <= 1
    /\ cmdTimeout = "fired" =>
          /\ Len(resolveCalls) = 1
          /\ resolveCalls[1].exitCode = 124
          /\ resolveCalls[1].success = FALSE
          /\ resolveCalls[1].message = "Command execution timed out"
    /\ (capPc = "ended" /\ cmdTimeout # "fired") =>
          /\ cmdTimeout = "cleared"
          /\ Len(resolveCalls) = 1
          /\ resolveCalls[1].exitCode \in { 0, 1 }
          /\ resolveCalls[1].message # "Command execution timed out"
    /\ cmdTimeout = "cleared" => (isCompleted /\ ~ENABLED TimeoutFires)
C17_OneResult ==
    /\ []C17_Safety
    /\ (capPc # "notStarted") ~> (Len(resolveCalls) = 1 /\ capPromise = "fulfilled")

\* The timer fired first and delivered the timed-out result; the command
\* ended afterwards and delivered nothing more.
C17_Witness ==
    /\ capPc = "ended"
    /\ cmdTimeout = "fired"
    /\ resolveCalls = << TimedOutResult(outputLines) >>
    /\ stdout # <<>>
====
